---- MODULE Spec2Model ----
(***************************************************************************)
(* Lifecycle model of the hypelab simulation classes (LorenzAttractor,     *)
(* DoublePendulum, WaveFunction, NewtonsCradle, HarmonicOscillator,        *)
(* ParticleInBox, OrbitalMotion).  One instance is alive at a time, as in  *)
(* main.js (simulationInstance); `sim` names its class and `inst` holds    *)
(* its fields.                                                             *)
(*                                                                         *)
(* JavaScript numbers are rendered as fixed-point integers: a real r of a  *)
(* class is the integer r * Q of that class (LQ, HQ, ...).  Drawing and    *)
(* chart calls do not touch the fields and are left out.                   *)
(*                                                                         *)
(* Spec runs the lifecycle of one instance (update, reset, parameter       *)
(* callbacks).  AppSpec runs the controller of main.js (loadSimulation,    *)
(* its timeouts, the animation frames) in `app`.  LongRunSpec animates one *)
(* instance until its history buffers are full.  TwinSpec runs two Lorenz  *)
(* instances side by side, RenormSpec one WaveFunction without             *)
(* interruption, SwingSpec a double pendulum released from chosen angles,  *)
(* PointerSpec OrbitalMotion with the mouse on the canvas, HyperionSpec    *)
(* the router and controls of HyperionApp.  NormalizeSpec, CollisionSpec,  *)
(* PairSpec, EvolveSpec, IntegrateSpec and EnergySpec apply one method to  *)
(* given inputs.                                                           *)
(***************************************************************************)
EXTENDS Integers, Sequences, FiniteSets, TLC

VARIABLES sim, inst, lastOp, threw, steps, app

vars == <<sim, inst, lastOp, threw, steps, app>>

(* ------------------------------ bounds --------------------------------- *)
\* update() calls made on one instance
MaxSteps == 2

(* --------------------------- shared helpers ---------------------------- *)
Abs(a) == IF a < 0 THEN -a ELSE a

\* a * b / q on fixed-point operands, without leaving 32 bits
MulQ(a, b, q) == a * (b \div q) + (a * (b % q)) \div q

\* Math.ceil(a / b) for b > 0
CeilDiv(a, b) == -((-a) \div b)

\* Array.prototype.push followed by `if (length > max) shift()`
\* a buffer that stops taking samples once it is full
PushLimitDropsNewest(s, e, max) == IF Len(s) + 1 > max THEN s ELSE Append(s, e)

PushLimit(s, e, max) ==
    IF Len(s) + 1 > max THEN Tail(Append(s, e)) ELSE Append(s, e)

RECURSIVE Tabulate(_, _)
\* the array <<f[1], ..., f[n]>> with every element computed once
Tabulate(f, n) == IF n = 0 THEN <<>> ELSE Append(Tabulate(f, n - 1), f[n])

RECURSIVE ISqrtIn(_, _, _)
\* the largest r in lo..hi with r * r <= n, by bisection
ISqrtIn(n, lo, hi) ==
    IF lo >= hi THEN lo
    ELSE LET mid == (lo + hi + 1) \div 2
         IN  IF mid * mid <= n THEN ISqrtIn(n, mid, hi) ELSE ISqrtIn(n, lo, mid - 1)

\* Math.sqrt on a non-negative integer (floor); 46340^2 is the last 32-bit square
ISqrt(n) == ISqrtIn(n, 0, IF n < 46340 THEN n ELSE 46340)

\* a / b rounded to the nearest integer, b > 0 (a float quotient, not a floor)
RDiv(a, b) == (2 * a + b) \div (2 * b)

RECURSIVE LnReduce(_, _, _, _)
\* num/den brought into [1, 2) by halving and doubling: <<k, num, den>> with
\* the original ratio = 2^k * num/den
LnReduce(num, den, k, fuel) ==
    IF fuel = 0 THEN <<k, num, den>>
    ELSE IF num >= 2 * den THEN LnReduce(num, 2 * den, k + 1, fuel - 1)
    ELSE IF num < den THEN LnReduce(2 * num, den, k - 1, fuel - 1)
    ELSE <<k, num, den>>

\* Math.log(num / den) in units of 1/q, for num, den > 0:
\* k ln 2 + 2 atanh(u), u = (m - 1)/(m + 1), atanh(u) ~ u + u^3/3
LnQ(num, den, q) ==
    LET series(k, u)  == (k * 6931 * (q \div 100)) \div 100
                         + 2 * (u + ((((u * u) \div q) * u) \div q) \div 3)
        ofReduced(r)  == series(r[1], ((r[2] - r[3]) * q) \div (r[2] + r[3]))
    IN  ofReduced(LnReduce(num, den, 0, 20))

(* ========================== LorenzAttractor ============================ *)
\* fixed-point unit of the Lorenz model: 1/LQ, the size of lyapunovDelta0
LQ == 10000

\* constructor defaults (newtonsCradle.js:406-463), in units of 1/LQ
LorenzSigma0 == 100000
LorenzRho0 == 280000
LorenzBeta0 == 26667
LorenzX0 == 1000
LorenzTimeStep0 == 50
LorenzSpeed0 == 10000
lyapunovDelta0 == 1
\* `if (this.lyapunovDelta > 0.01)`
LyapunovThreshold == 100
maxTrajectoryPoints == 2000
maxTimeSeriesPoints == 500
maxLyapunovPoints == 200
\* powerSpectrumUpdateInterval = 5 (seconds)
powerSpectrumUpdateInterval == 50000
\* rho < 24.74 in determineSystemState
HopfRho == 247400

\* derivatives that read the shadow trajectory when the comparison is shown
LorenzDerivativesCoupled(s, x, y, z) ==
    [dx |-> MulQ(s.sigma, y - x, LQ)
            + (IF s.showComparison THEN s.comparisonX - s.x ELSE 0),
     dy |-> MulQ(x, s.rho - z, LQ) - y,
     dz |-> MulQ(x, y, LQ) - MulQ(s.beta, z, LQ)]

LorenzDerivatives(s, x, y, z) ==
    [dx |-> MulQ(s.sigma, y - x, LQ),
     dy |-> MulQ(x, s.rho - z, LQ) - y,
     dz |-> MulQ(x, y, LQ) - MulQ(s.beta, z, LQ)]

\* the RK4 block shared by updateTrajectory and updateComparisonTrajectory
LorenzRK4(s, x, y, z, dt) ==
    LET \* the derivatives at (x, y, z) + k * dt / d
        at(k, d) == LorenzDerivatives(s, x + MulQ(k.dx, dt, LQ) \div d,
                                         y + MulQ(k.dy, dt, LQ) \div d,
                                         z + MulQ(k.dz, dt, LQ) \div d)
        sum(k1, k2, k3, k4) ==
            [x |-> x + MulQ(k1.dx + 2 * k2.dx + 2 * k3.dx + k4.dx, dt, LQ) \div 6,
             y |-> y + MulQ(k1.dy + 2 * k2.dy + 2 * k3.dy + k4.dy, dt, LQ) \div 6,
             z |-> z + MulQ(k1.dz + 2 * k2.dz + 2 * k3.dz + k4.dz, dt, LQ) \div 6]
        from3(k1, k2, k3) == sum(k1, k2, k3, at(k3, 1))
        from2(k1, k2)     == from3(k1, k2, at(k2, 2))
        from1(k1)         == from2(k1, at(k1, 2))
    IN  from1(LorenzDerivatives(s, x, y, z))

LorenzUpdateTrajectory(s, dt) ==
    LET moved(n) ==
            [s EXCEPT !.x = n.x, !.y = n.y, !.z = n.z,
                      !.trajectory = PushLimit(@, [x |-> n.x, y |-> n.y, z |-> n.z,
                                                  time |-> s.time],
                                               maxTrajectoryPoints)]
    IN  moved(LorenzRK4(s, s.x, s.y, s.z, dt))

LorenzUpdateComparisonTrajectory(s, dt) ==
    LET moved(n) ==
            [s EXCEPT !.comparisonX = n.x, !.comparisonY = n.y, !.comparisonZ = n.z,
                      !.comparisonTrajectory =
                          PushLimit(@, [x |-> n.x, y |-> n.y, z |-> n.z,
                                        time |-> s.time], maxTrajectoryPoints)]
    IN  moved(LorenzRK4(s, s.comparisonX, s.comparisonY, s.comparisonZ, dt))

LorenzCalculateLyapunovExponent(s, dt) ==
    LET t     == s.lyapunovTime + dt
        dx    == s.x - s.comparisonX
        dy    == s.y - s.comparisonY
        dz    == s.z - s.comparisonZ
        \* the branch taken when delta > 0.01, lam the new exponent
        renormalized(delta, lam) ==
            [s EXCEPT !.lyapunovDelta = delta,
                      !.lyapunovExponent = lam,
                      !.lyapunovHistory =
                          PushLimit(@, [time |-> s.time, value |-> lam],
                                    maxLyapunovPoints),
                      \* scale = lyapunovDelta0 / lyapunovDelta
                      !.comparisonX = s.x - RDiv(dx * lyapunovDelta0, delta),
                      !.comparisonY = s.y - RDiv(dy * lyapunovDelta0, delta),
                      !.comparisonZ = s.z - RDiv(dz * lyapunovDelta0, delta),
                      !.lyapunovTime = 0]
        measured(delta) ==
            IF delta > LyapunovThreshold
            THEN renormalized(delta, (LnQ(delta, lyapunovDelta0, LQ) * LQ) \div t)
            ELSE [s EXCEPT !.lyapunovDelta = delta, !.lyapunovTime = t]
    IN  measured(ISqrt(dx * dx + dy * dy + dz * dz))

LorenzResetComparison(s) ==
    [s EXCEPT !.comparisonX = s.x + lyapunovDelta0,
              !.comparisonY = s.y,
              !.comparisonZ = s.z,
              !.comparisonTrajectory =
                  IF Len(s.trajectory) > 0
                  THEN <<[x |-> s.x + lyapunovDelta0, y |-> s.y, z |-> s.z,
                          time |-> s.time]>>
                  ELSE <<>>]

\* reset() that forgets `this.trajectory = []` before it seeds the trajectory
LorenzResetKeepsTrajectory(s) ==
    LET compared(a) == IF a.showComparison THEN LorenzResetComparison(a) ELSE a
    IN  [compared([s EXCEPT !.x = s.parameters.initialX,
                            !.y = s.parameters.initialY,
                            !.z = s.parameters.initialZ,
                            !.time = 0,
                            !.comparisonTrajectory = <<>>,
                            !.timeSeriesData = [time |-> <<>>, x |-> <<>>,
                                                y |-> <<>>, z |-> <<>>],
                            !.lyapunovExponent = 0,
                            !.lyapunovTime = 0,
                            !.lyapunovDelta = lyapunovDelta0,
                            !.lyapunovHistory = <<>>])
            EXCEPT !.lastPowerSpectrumUpdate = 0]

\* reset() without the seeding pushes at its end
LorenzResetCleared(s) ==
    LET compared(a) == IF a.showComparison THEN LorenzResetComparison(a) ELSE a
    IN  [compared([s EXCEPT !.x = s.parameters.initialX,
                            !.y = s.parameters.initialY,
                            !.z = s.parameters.initialZ,
                            !.time = 0,
                            !.trajectory = <<>>,
                            !.comparisonTrajectory = <<>>,
                            !.timeSeriesData = [time |-> <<>>, x |-> <<>>,
                                                y |-> <<>>, z |-> <<>>],
                            !.lyapunovExponent = 0,
                            !.lyapunovTime = 0,
                            !.lyapunovDelta = lyapunovDelta0,
                            !.lyapunovHistory = <<>>])
            EXCEPT !.lastPowerSpectrumUpdate = 0]

LorenzReset(s) ==
    LET \* this.trajectory.push(...)
        seeded(b) ==
            [b EXCEPT !.trajectory =
                Append(@, [x |-> b.x, y |-> b.y, z |-> b.z, time |-> b.time])]
        \* if (this.showComparison) this.comparisonTrajectory.push(...)
        seededComparison(c) ==
            IF c.showComparison
            THEN [c EXCEPT !.comparisonTrajectory =
                     Append(@, [x |-> c.comparisonX, y |-> c.comparisonY,
                                z |-> c.comparisonZ, time |-> c.time])]
            ELSE c
        \* the four pushes onto timeSeriesData
        sampled(d) ==
            [d EXCEPT !.timeSeriesData =
                [time |-> Append(@.time, d.time), x |-> Append(@.x, d.x),
                 y |-> Append(@.y, d.y), z |-> Append(@.z, d.z)]]
    IN  sampled(seededComparison(seeded(LorenzResetCleared(s))))

LorenzClearTrajectory(s) ==
    LET keepPoints == 50
        last(q)    == IF Len(q) > 0 THEN <<q[Len(q)]>> ELSE q
        tail(q)    == IF Len(q) > keepPoints
                      THEN SubSeq(q, Len(q) - keepPoints + 1, Len(q)) ELSE q
    IN  [s EXCEPT !.trajectory = last(@),
                  !.comparisonTrajectory = last(@),
                  !.timeSeriesData = [time |-> tail(@.time), x |-> tail(@.x),
                                      y |-> tail(@.y), z |-> tail(@.z)],
                  !.lyapunovHistory = <<>>]

LorenzDetermineSystemState(s) ==
    IF s.rho < LQ THEN "Stable (Origin)"
    ELSE IF s.rho < HopfRho THEN "Stable (Two Points)"
    ELSE IF s.lyapunovExponent > LQ \div 100 THEN "Chaotic"
    ELSE "Transitional"

RECURSIVE LorenzSteps(_, _)
\* the `for (let i = 0; i < steps; i++)` loop of update()
LorenzSteps(s, n) ==
    IF n <= 0 THEN s
    ELSE LET compared(a) ==
                 IF a.showComparison
                 THEN LorenzCalculateLyapunovExponent(
                          LorenzUpdateComparisonTrajectory(a, a.timeStep),
                          a.timeStep)
                 ELSE a
             timed(b) == [b EXCEPT !.time = @ + b.timeStep]
         IN  LorenzSteps(timed(compared(LorenzUpdateTrajectory(s, s.timeStep))),
                         n - 1)

\* update(dt) from `const scaledDt` on (the pause test is LorenzUpdate's)
LorenzAdvance(s, dt) ==
    LET scaledDt == MulQ(dt, s.simulationSpeed, LQ)
        \* the time-series block after the loop
        sampled(a) ==
            IF a.time % (a.timeStep * 10) < a.timeStep
            THEN [a EXCEPT !.timeSeriesData =
                     [time |-> PushLimit(@.time, a.time, maxTimeSeriesPoints),
                      x |-> PushLimit(@.x, a.x, maxTimeSeriesPoints),
                      y |-> PushLimit(@.y, a.y, maxTimeSeriesPoints),
                      z |-> PushLimit(@.z, a.z, maxTimeSeriesPoints)]]
            ELSE a
        \* calculatePowerSpectrum() returns early below 64 samples; the FFT
        \* itself fills display data only
        spectrum(b) ==
            IF b.time - b.lastPowerSpectrumUpdate > powerSpectrumUpdateInterval
            THEN [b EXCEPT !.lastPowerSpectrumUpdate = b.time] ELSE b
        \* the assignments to this.values
        published(c) ==
            [c EXCEPT !.values =
                [x |-> c.x, y |-> c.y, z |-> c.z, time |-> c.time,
                 lyapunovExponent |-> c.lyapunovExponent,
                 divergenceTime |->
                     IF c.lyapunovExponent > 0
                     THEN (LnQ(LQ, lyapunovDelta0, LQ) * LQ) \div c.lyapunovExponent
                     ELSE @.divergenceTime,
                 systemState |-> LorenzDetermineSystemState(c)]]
    IN  published(spectrum(sampled(LorenzSteps(s, CeilDiv(scaledDt, s.timeStep)))))

\* update(dt) with the pause test at its head left out
LorenzUpdateNoPauseCheck(s, dt) == LorenzAdvance(s, dt)

LorenzUpdate(s, dt) == IF s.isPaused THEN s ELSE LorenzAdvance(s, dt)

\* constructor: field initialisers, then this.reset()
LorenzNew ==
    LorenzReset(
        [cls |-> "LorenzAttractor",
         sigma |-> LorenzSigma0, rho |-> LorenzRho0, beta |-> LorenzBeta0,
         x |-> LorenzX0, y |-> 0, z |-> 0,
         showComparison |-> TRUE,
         comparisonX |-> LorenzX0 + lyapunovDelta0,
         comparisonY |-> 0, comparisonZ |-> 0,
         timeStep |-> LorenzTimeStep0, simulationSpeed |-> LorenzSpeed0,
         isPaused |-> FALSE, time |-> 0,
         trajectory |-> <<>>, comparisonTrajectory |-> <<>>,
         timeSeriesData |-> [time |-> <<>>, x |-> <<>>, y |-> <<>>, z |-> <<>>],
         lyapunovExponent |-> 0, lyapunovHistory |-> <<>>,
         lyapunovTime |-> 0, lyapunovDelta |-> lyapunovDelta0,
         lastPowerSpectrumUpdate |-> 0,
         parameters |-> [initialX |-> LorenzX0, initialY |-> 0, initialZ |-> 0],
         values |-> [x |-> LorenzX0, y |-> 0, z |-> 0, time |-> 0,
                     lyapunovExponent |-> 0, divergenceTime |-> 0,
                     systemState |-> "Chaotic"]])

(* =========================== DoublePendulum ============================ *)
\* fixed-point unit of the double pendulum: 1/DQ, the size of its
\* lyapunovDelta0 (angles in mrad, angular velocities in mrad/s, times in ms)
DQ == 1000
\* Math.PI in units of 1/DQ
PI == 3142

\* canvas.width, canvas.height as resizeCanvas() sets them
canvasWidth == 800
canvasHeight == 600

\* JavaScript's %: the remainder takes the sign of the dividend
JSMod(a, b) == IF a >= 0 THEN a % b ELSE -((-a) % b)

\* Math.sin on [0, PI] (Bhaskara's rational approximation), in units of 1/DQ
SinHalf(y) ==
    LET p == y * (PI - y) IN (16 * p) \div ((5 * PI * PI - 4 * p) \div DQ)

\* Math.sin, Math.cos of an angle in units of 1/DQ
Sin(x) == LET y == x % (2 * PI) IN IF y <= PI THEN SinHalf(y) ELSE -SinHalf(y - PI)
Cos(x) == Sin(x + PI \div 2)

\* constructor defaults (doublependulum.js:12-66)
DPGravity0 == 9810
DPDamping0 == 10
DPLength0 == 150
DPMass0 == 10
DPAngle0 == 1571
DPTimeStep0 == 17
DPLyapunovDelta0 == 1
\* `if (this.lyapunovDelta > 0.01)`
DPLyapunovThreshold == 10
maxPhasePoints == 500
maxEnergyPoints == 300
maxTrailPoints == 500
DPMaxLyapunovPoints == 200

DPDerivatives(s, theta1, omega1, theta2, omega2) ==
    LET m1 == s.mass1
        m2 == s.mass2
        l1 == s.length1
        l2 == s.length2
        g  == s.gravity
        d  == s.damping
        \* the four rates, from Math.cos(delta), Math.sin(delta),
        \* Math.sin(theta1), Math.sin(theta2) and the squared velocities
        rates(cosDelta, sinDelta, sin1, sin2, w1sq, w2sq) ==
            LET den1 == (m1 + m2) * l1 * DQ - m2 * l1 * MulQ(cosDelta, cosDelta, DQ)
                den2 == (l2 * den1) \div l1
                num1 == m2 * l1 * MulQ(MulQ(w1sq, sinDelta, DQ), cosDelta, DQ)
                        + m2 * MulQ(MulQ(g, sin2, DQ), cosDelta, DQ)
                        + m2 * l2 * MulQ(w2sq, sinDelta, DQ)
                        - (m1 + m2) * MulQ(g, sin1, DQ)
                        - MulQ(MulQ(d, omega1, DQ), den1, DQ)
                num2 == - m2 * l2 * MulQ(MulQ(w2sq, sinDelta, DQ), cosDelta, DQ)
                        + (m1 + m2) * MulQ(MulQ(g, sin1, DQ), cosDelta, DQ)
                        - (m1 + m2) * l1 * MulQ(w1sq, sinDelta, DQ)
                        - (m1 + m2) * MulQ(g, sin2, DQ)
                        - MulQ(MulQ(d, omega2, DQ), den2, DQ)
            IN  [dTheta1 |-> omega1,
                 dOmega1 |-> num1 \div (den1 \div DQ),
                 dTheta2 |-> omega2,
                 dOmega2 |-> num2 \div (den2 \div DQ)]
    IN  rates(Cos(theta2 - theta1), Sin(theta2 - theta1), Sin(theta1), Sin(theta2),
              MulQ(omega1, omega1, DQ), MulQ(omega2, omega2, DQ))

normalizeAngle(angle) == JSMod(angle + PI, 2 * PI) - PI

\* the RK4 block shared by updatePendulum and updateComparisonPendulum
DPRK4(s, a1, w1, a2, w2, dt) ==
    LET \* the derivatives at (a1, w1, a2, w2) + k * dt / d
        at(k, d) == DPDerivatives(s, a1 + MulQ(k.dTheta1, dt, DQ) \div d,
                                     w1 + MulQ(k.dOmega1, dt, DQ) \div d,
                                     a2 + MulQ(k.dTheta2, dt, DQ) \div d,
                                     w2 + MulQ(k.dOmega2, dt, DQ) \div d)
        w(a, b, c, e) == MulQ(a + 2 * b + 2 * c + e, dt, DQ) \div 6
        sum(k1, k2, k3, k4) ==
            [a1 |-> normalizeAngle(a1 + w(k1.dTheta1, k2.dTheta1, k3.dTheta1, k4.dTheta1)),
             w1 |-> w1 + w(k1.dOmega1, k2.dOmega1, k3.dOmega1, k4.dOmega1),
             a2 |-> normalizeAngle(a2 + w(k1.dTheta2, k2.dTheta2, k3.dTheta2, k4.dTheta2)),
             w2 |-> w2 + w(k1.dOmega2, k2.dOmega2, k3.dOmega2, k4.dOmega2)]
        from3(k1, k2, k3) == sum(k1, k2, k3, at(k3, 1))
        from2(k1, k2)     == from3(k1, k2, at(k2, 2))
        from1(k1)         == from2(k1, at(k1, 2))
    IN  from1(DPDerivatives(s, a1, w1, a2, w2))

updatePendulum(s, dt) ==
    LET moved(n) ==
            [s EXCEPT !.angle1 = n.a1, !.angularVelocity1 = n.w1,
                      !.angle2 = n.a2, !.angularVelocity2 = n.w2]
    IN  moved(DPRK4(s, s.angle1, s.angularVelocity1, s.angle2, s.angularVelocity2, dt))

updateComparisonPendulum(s, dt) ==
    LET moved(n) ==
            [s EXCEPT !.comparisonAngle1 = n.a1, !.comparisonAngularVelocity1 = n.w1,
                      !.comparisonAngle2 = n.a2, !.comparisonAngularVelocity2 = n.w2]
    IN  moved(DPRK4(s, s.comparisonAngle1, s.comparisonAngularVelocity1,
                       s.comparisonAngle2, s.comparisonAngularVelocity2, dt))

DPCalculateLyapunovExponent(s, dt) ==
    LET t  == s.lyapunovTime + dt
        d1 == s.angle1 - s.comparisonAngle1
        d2 == s.angle2 - s.comparisonAngle2
        d3 == s.angularVelocity1 - s.comparisonAngularVelocity1
        d4 == s.angularVelocity2 - s.comparisonAngularVelocity2
        \* the branch taken when delta > 0.01, lam the new exponent
        renormalized(delta, lam) ==
            [s EXCEPT !.lyapunovDelta = delta,
                      !.lyapunovExponent = lam,
                      !.lyapunovHistory =
                          PushLimit(@, [time |-> s.time, value |-> lam],
                                    DPMaxLyapunovPoints),
                      !.comparisonAngle1 = s.angle1 - RDiv(d1 * DPLyapunovDelta0, delta),
                      !.comparisonAngle2 = s.angle2 - RDiv(d2 * DPLyapunovDelta0, delta),
                      !.comparisonAngularVelocity1 =
                          s.angularVelocity1 - RDiv(d3 * DPLyapunovDelta0, delta),
                      !.comparisonAngularVelocity2 =
                          s.angularVelocity2 - RDiv(d4 * DPLyapunovDelta0, delta),
                      !.lyapunovTime = 0]
        measured(delta) ==
            IF delta > DPLyapunovThreshold
            THEN renormalized(delta, (LnQ(delta, DPLyapunovDelta0, DQ) * DQ) \div t)
            ELSE [s EXCEPT !.lyapunovDelta = delta, !.lyapunovTime = t]
    IN  measured(ISqrt(d1 * d1 + d2 * d2 + d3 * d3 + d4 * d4))

\* calculateEnergy(): kinetic, potential and total, in whole units
DPEnergy(s) ==
    LET sq(v) == MulQ(v, v, DQ) \div DQ
        \* from Math.cos and Math.sin of angle1 and of angle2
        energy(cos1, sin1, cos2, sin2) ==
            LET y1  == s.length1 * cos1
                y2  == y1 + s.length2 * cos2
                v1x == MulQ(s.length1 * s.angularVelocity1, cos1, DQ)
                v1y == -MulQ(s.length1 * s.angularVelocity1, sin1, DQ)
                v2x == v1x + MulQ(s.length2 * s.angularVelocity2, cos2, DQ)
                v2y == v1y - MulQ(s.length2 * s.angularVelocity2, sin2, DQ)
                total(kinetic, potential) ==
                    [kinetic |-> kinetic, potential |-> potential,
                     total |-> kinetic + potential]
            IN  total((s.mass1 * (sq(v1x) + sq(v1y))
                       + s.mass2 * (sq(v2x) + sq(v2y))) \div 2,
                      (s.mass1 * MulQ(s.gravity, -y1, DQ)
                       + s.mass2 * MulQ(s.gravity, -y2, DQ)) \div DQ)
    IN  energy(Cos(s.angle1), Sin(s.angle1), Cos(s.angle2), Sin(s.angle2))

DPCalculateEnergy(s) ==
    LET stored(e) ==
            [s EXCEPT !.values.kineticEnergy = e.kinetic,
                      !.values.potentialEnergy = e.potential,
                      !.values.totalEnergy = e.total]
    IN  stored(DPEnergy(s))

\* angle * 1.001
TimesOnePointOhOhOne(a) == RDiv(a * 1001, 1000)

DPResetComparison(s) ==
    [s EXCEPT !.comparisonAngle1 = TimesOnePointOhOhOne(s.angle1),
              !.comparisonAngle2 = TimesOnePointOhOhOne(s.angle2),
              !.comparisonAngularVelocity1 = s.angularVelocity1,
              !.comparisonAngularVelocity2 = s.angularVelocity2]

DPEmptyPhase == [angle1 |-> <<>>, velocity1 |-> <<>>, angle2 |-> <<>>, velocity2 |-> <<>>]
DPEmptyEnergy == [time |-> <<>>, kinetic |-> <<>>, potential |-> <<>>, total |-> <<>>]

DPReset(s) ==
    LET compared(a) == IF a.showComparison THEN DPResetComparison(a) ELSE a
    IN  DPCalculateEnergy(compared(
            [s EXCEPT !.angle1 = s.parameters.angle1,
                      !.angle2 = s.parameters.angle2,
                      !.angularVelocity1 = s.parameters.angularVelocity1,
                      !.angularVelocity2 = s.parameters.angularVelocity2,
                      !.time = 0,
                      !.trailPoints = <<>>,
                      !.phaseSpaceData = DPEmptyPhase,
                      !.energyData = DPEmptyEnergy,
                      !.lyapunovExponent = 0,
                      !.lyapunovTime = 0,
                      !.lyapunovDelta = DPLyapunovDelta0,
                      !.lyapunovHistory = <<>>]))

\* update(dt) from `const fixedDt` on (the pause test is DPUpdate's)
DPAdvance(s, dt) ==
    LET fixedDt == s.timeStep
        compared(a) ==
            IF a.showComparison
            THEN DPCalculateLyapunovExponent(updateComparisonPendulum(a, fixedDt),
                                             fixedDt)
            ELSE a
        timed(b) == [b EXCEPT !.time = @ + fixedDt]
        \* the trail point (x2, y2) and the phase-space sample
        traced(c) ==
            [c EXCEPT !.trailPoints =
                          PushLimit(@, [x |-> s.centerX
                                              + (c.length1 * Sin(c.angle1)
                                                 + c.length2 * Sin(c.angle2)) \div DQ,
                                        y |-> s.centerY
                                              + (c.length1 * Cos(c.angle1)
                                                 + c.length2 * Cos(c.angle2)) \div DQ],
                                    maxTrailPoints),
                      !.phaseSpaceData =
                          [angle1 |-> PushLimit(@.angle1, c.angle1, maxPhasePoints),
                           velocity1 |-> PushLimit(@.velocity1, c.angularVelocity1,
                                                   maxPhasePoints),
                           angle2 |-> PushLimit(@.angle2, c.angle2, maxPhasePoints),
                           velocity2 |-> PushLimit(@.velocity2, c.angularVelocity2,
                                                   maxPhasePoints)]]
        charted(e) ==
            [e EXCEPT !.energyData =
                [time |-> PushLimit(@.time, e.time, maxEnergyPoints),
                 kinetic |-> PushLimit(@.kinetic, e.values.kineticEnergy, maxEnergyPoints),
                 potential |-> PushLimit(@.potential, e.values.potentialEnergy,
                                         maxEnergyPoints),
                 total |-> PushLimit(@.total, e.values.totalEnergy, maxEnergyPoints)]]
        published(f) ==
            [f EXCEPT !.values.angle1 = f.angle1,
                      !.values.angle2 = f.angle2,
                      !.values.angularVelocity1 = f.angularVelocity1,
                      !.values.angularVelocity2 = f.angularVelocity2,
                      !.values.lyapunovExponent = f.lyapunovExponent,
                      \* Math.log(1.0 / lyapunovDelta0) / lyapunovExponent:
                      \* +Infinity at 0
                      !.values.divergenceTime =
                          IF f.lyapunovExponent = 0 THEN "Infinity"
                          ELSE IF f.lyapunovExponent < 0 THEN 0
                          ELSE (LnQ(DQ, DPLyapunovDelta0, DQ) * DQ)
                               \div f.lyapunovExponent]
    IN  published(charted(DPCalculateEnergy(traced(timed(compared(
            updatePendulum(s, fixedDt)))))))

DPUpdate(s, dt) == IF s.isPaused THEN s ELSE DPAdvance(s, dt)

\* parameters 'clearTrail': onClick
DPClearTrail(s) ==
    [s EXCEPT !.trailPoints = <<>>, !.phaseSpaceData = DPEmptyPhase,
              !.energyData = DPEmptyEnergy, !.lyapunovHistory = <<>>]

\* constructor: field initialisers, then this.reset()
DPNew ==
    DPReset(
        [cls |-> "DoublePendulum",
         gravity |-> DPGravity0, damping |-> DPDamping0,
         length1 |-> DPLength0, length2 |-> DPLength0,
         mass1 |-> DPMass0, mass2 |-> DPMass0,
         angle1 |-> DPAngle0, angle2 |-> DPAngle0,
         angularVelocity1 |-> 0, angularVelocity2 |-> 0,
         showComparison |-> TRUE,
         comparisonAngle1 |-> TimesOnePointOhOhOne(DPAngle0),
         comparisonAngle2 |-> TimesOnePointOhOhOne(DPAngle0),
         comparisonAngularVelocity1 |-> 0, comparisonAngularVelocity2 |-> 0,
         phaseSpaceData |-> DPEmptyPhase, energyData |-> DPEmptyEnergy,
         trailPoints |-> <<>>,
         lyapunovExponent |-> 0, lyapunovTime |-> 0,
         lyapunovDelta |-> DPLyapunovDelta0, lyapunovHistory |-> <<>>,
         isPaused |-> FALSE, timeStep |-> DPTimeStep0, time |-> 0,
         centerX |-> canvasWidth \div 2, centerY |-> canvasHeight \div 3,
         parameters |-> [angle1 |-> DPAngle0, angle2 |-> DPAngle0,
                         angularVelocity1 |-> 0, angularVelocity2 |-> 0],
         values |-> [angle1 |-> DPAngle0, angle2 |-> DPAngle0,
                     angularVelocity1 |-> 0, angularVelocity2 |-> 0,
                     kineticEnergy |-> 0, potentialEnergy |-> 0, totalEnergy |-> 0,
                     lyapunovExponent |-> 0, divergenceTime |-> 0]])

(* ========================= HarmonicOscillator ========================== *)
\* fixed-point unit of the oscillator: 1/HQ (mm, mm/s, ms)
HQ == 1000

\* constructor defaults (harmonicOscillator.js:8-22)
HOMass0 == 1000
HOSpringConstant0 == 10000
HODamping0 == 50
HOInitialPosition0 == 1000
\* declared range of 'damping' (harmonicOscillator.js:62-63)
HODampingMin == 0
HODampingMax == 2000
maxDataPoints == 300
\* originX and pixelsPerMeter, in pixels
HOOriginX == 150
pixelsPerMeter == 100

HOCalculateAcceleration(s, time, position, velocity) ==
    LET drivingForce == MulQ(s.driveAmplitude,
                             Cos(MulQ(s.driveAngularFrequency, time, HQ)), HQ)
        springForce  == -MulQ(s.springConstant, position, HQ)
        dampingForce == -MulQ(s.damping, velocity, HQ)
    IN  ((springForce + dampingForce + drivingForce) * HQ) \div s.mass

HOUpdatePhysics(s, dt) ==
    LET t == s.time
        x == s.position
        v == s.velocity
        \* (kx, kv) of the stage at t + h, x + px / d, v + pv / d
        k(h, px, pv, d) ==
            [x |-> MulQ(v + pv \div d, dt, HQ),
             v |-> MulQ(HOCalculateAcceleration(s, t + h, x + px \div d, v + pv \div d),
                        dt, HQ)]
        sum(k1, k2, k3, k4) ==
            [s EXCEPT !.velocity = v + (k1.v + 2 * k2.v + 2 * k3.v + k4.v) \div 6,
                      !.position = x + (k1.x + 2 * k2.x + 2 * k3.x + k4.x) \div 6,
                      !.time = t + dt]
        from3(k1, k2, k3) == sum(k1, k2, k3, k(dt, k3.x, k3.v, 1))
        from2(k1, k2)     == from3(k1, k2, k(dt \div 2, k2.x, k2.v, 2))
        from1(k1)         == from2(k1, k(dt \div 2, k1.x, k1.v, 2))
    IN  from1([x |-> MulQ(v, dt, HQ),
               v |-> MulQ(HOCalculateAcceleration(s, t, x, v), dt, HQ)])

\* the kinetic, potential and total energy of updateValues and storeGraphData
HOEnergy(s) ==
    LET kinetic   == MulQ(s.mass, MulQ(s.velocity, s.velocity, HQ), HQ) \div 2
        potential == MulQ(s.springConstant, MulQ(s.position, s.position, HQ), HQ) \div 2
    IN  [kinetic |-> kinetic, potential |-> potential, total |-> kinetic + potential]

HOUpdateValues(s) ==
    LET stored(e) ==
            [s EXCEPT !.values.position = s.position,
                      !.values.velocity = s.velocity,
                      !.values.acceleration = s.acceleration,
                      !.values.kineticEnergy = e.kinetic,
                      !.values.potentialEnergy = e.potential,
                      !.values.totalEnergy = e.total]
    IN  stored(HOEnergy(s))

HOCalculateDampingRatio(s) ==
    LET stored(r) == [s EXCEPT !.dampingRatio = r, !.values.dampingRatio = r]
    IN  stored((s.damping * HQ)
               \div (2 * ISqrt(MulQ(s.mass, s.springConstant, HQ) * HQ)))

HOCalculateNaturalFrequency(s) ==
    LET stored(w, p, f) ==
            HOCalculateDampingRatio(
                [s EXCEPT !.naturalAngularFrequency = w, !.period = p,
                          !.naturalFrequency = f,
                          !.values.period = p, !.values.frequency = f])
        fromPeriod(w, p) == stored(w, p, (HQ * HQ) \div p)
        fromOmega(w)     == fromPeriod(w, (2 * PI * HQ) \div w)
    IN  fromOmega(ISqrt(((s.springConstant * HQ) \div s.mass) * HQ))

HOReset(s) ==
    HOUpdateValues(
        [s EXCEPT !.time = 0,
                  !.position = s.initialPosition,
                  !.velocity = s.initialVelocity,
                  !.acceleration = 0,
                  !.timeData = <<>>, !.positionData = <<>>, !.velocityData = <<>>,
                  !.kineticEnergyData = <<>>, !.potentialEnergyData = <<>>,
                  !.totalEnergyData = <<>>, !.phaseData = <<>>])

HOStoreGraphData(s) ==
    LET stored(e) ==
            [s EXCEPT !.timeData = PushLimit(@, s.time, maxDataPoints),
                      !.positionData = PushLimit(@, s.position, maxDataPoints),
                      !.velocityData = PushLimit(@, s.velocity, maxDataPoints),
                      !.kineticEnergyData = PushLimit(@, e.kinetic, maxDataPoints),
                      !.potentialEnergyData = PushLimit(@, e.potential, maxDataPoints),
                      !.totalEnergyData = PushLimit(@, e.total, maxDataPoints),
                      !.phaseData = PushLimit(@, [x |-> s.position, y |-> s.velocity],
                                              maxDataPoints)]
    IN  stored(HOEnergy(s))

HOUpdate(s, dt) ==
    IF s.isDragging THEN HOUpdateValues(s)
    ELSE LET accelerated(a) ==
                 [a EXCEPT !.acceleration =
                     HOCalculateAcceleration(a, a.time, a.position, a.velocity)]
         IN  HOStoreGraphData(HOUpdateValues(accelerated(HOUpdatePhysics(s, dt))))

\* constructor: field initialisers, calculateNaturalFrequency(),
\* calculateDampingRatio(), reset()
HONew ==
    HOReset(HOCalculateDampingRatio(HOCalculateNaturalFrequency(
        [cls |-> "HarmonicOscillator",
         mass |-> HOMass0, springConstant |-> HOSpringConstant0,
         damping |-> HODamping0,
         position |-> 0, velocity |-> 0, acceleration |-> 0,
         driveAmplitude |-> 0, driveFrequency |-> 0, driveAngularFrequency |-> 0,
         initialPosition |-> HOInitialPosition0, initialVelocity |-> 0,
         time |-> 0, isDragging |-> FALSE, dragStartX |-> 0, dragStartPos |-> 0,
         naturalAngularFrequency |-> 0, period |-> 0, naturalFrequency |-> 0,
         dampingRatio |-> 0,
         timeData |-> <<>>, positionData |-> <<>>, velocityData |-> <<>>,
         kineticEnergyData |-> <<>>, potentialEnergyData |-> <<>>,
         totalEnergyData |-> <<>>, phaseData |-> <<>>,
         parameters |-> [damping |-> HODamping0],
         values |-> [position |-> 0, velocity |-> 0, acceleration |-> 0,
                     period |-> 0, frequency |-> 0, dampingRatio |-> 0,
                     kineticEnergy |-> 0, potentialEnergy |-> 0,
                     totalEnergy |-> 0]])))

(* ============================ NewtonsCradle ============================ *)
\* fixed-point unit of the cradle: 1/NQ (urad, urad/s, us); pixels in 1/NPX
NQ == 1000000
NPX == 100
PIM == 3141593

\* a * b / NQ rounded to the nearest unit, both factors split at 1000 so that
\* no partial product leaves 32 bits
MulM(a, b) ==
    LET ah == a \div 1000
        al == a % 1000
        bh == b \div 1000
        bl == b % 1000
    IN  ah * bh + (ah * bl + al * bh + (al * bl + 500000) \div 1000) \div 1000

RECURSIVE AltSeries(_, _, _, _)
\* t - t x2/(j (j+1)) + t x2^2/(j (j+1) (j+2) (j+3)) - ..., `more` terms after t
AltSeries(t, x2, j, more) ==
    IF more = 0 THEN t
    ELSE t - AltSeries(MulM(t, x2) \div (j * (j + 1)), x2, j + 2, more - 1)

\* Math.sin and Math.cos on [-PI/2, PI/2] (series up to x^9 and x^8), in
\* units of 1/NQ
SinSeries(x) == AltSeries(x, MulM(x, x), 2, 4)

CosSeries(x) == AltSeries(NQ, MulM(x, x), 1, 4)

\* an angle brought into [-PI, PI)
WrapM(x) == ((x + PIM) % (2 * PIM)) - PIM

\* an angle of [-PI, PI) mirrored into [-PI/2, PI/2]: the sine stays, the
\* cosine changes sign
FoldM(y) ==
    IF y > PIM \div 2 THEN PIM - y
    ELSE IF y < -(PIM \div 2) THEN -PIM - y
    ELSE y

SinM(x) == SinSeries(FoldM(WrapM(x)))

CosM(x) ==
    LET folded(y) == IF FoldM(y) = y THEN CosSeries(y) ELSE -CosSeries(FoldM(y))
    IN  folded(WrapM(x))

\* constructor defaults (newtonsCradle.js:7-16)
NCGravity0 == 9810000
NCRestitution0 == 1000000
NCTotalPendulums0 == 5
NCPendulumsToPull0 == 1
pendulumRadius == 20
pendulumSpacing == 42
stringLength == 200
maxAngle == 785398
subSteps == 10
\* length of each data set of the energy chart
chartWindow == 100
\* declared [min, max] of the four parameters (newtonsCradle.js:29-76);
\* the maximum of pendulumsToPull is totalPendulums - 1 at construction
NCGravityMin == 1000000
NCGravityMax == 20000000
NCRestitutionMin == 100000
NCRestitutionMax == 1000000
NCTotalPendulumsMin == 2
NCTotalPendulumsMax == 10
NCPendulumsToPullMin == 1
NCPendulumsToPullMax == 4

\* updatePendulumPositions(); sequence index i is array index i - 1
NCUpdatePendulumPositions(s) ==
    LET totalWidth == (s.totalPendulums - 1) * pendulumSpacing * NPX
        startX     == s.centerX - totalWidth \div 2
        place(i)   ==
            LET p      == s.pendulums[i]
                pivotX == startX + (i - 1) * pendulumSpacing * NPX
                pivotY == s.centerY - stringLength * NPX
            IN  [x |-> pivotX + (stringLength * SinM(p.angle)) \div (NQ \div NPX),
                 y |-> pivotY + (stringLength * CosM(p.angle)) \div (NQ \div NPX),
                 angle |-> p.angle, velocity |-> p.velocity, mass |-> p.mass,
                 pivotX |-> pivotX, pivotY |-> pivotY]
    IN  [s EXCEPT !.pendulums =
            Tabulate([i \in 1..Len(s.pendulums) |-> place(i)], Len(s.pendulums))]

NCOnResize(s, width, height) ==
    NCUpdatePendulumPositions(
        [s EXCEPT !.centerX = (width * NPX) \div 2, !.centerY = (height * NPX) \div 3])

\* reset() throws a TypeError at this.pendulums[i].angle when a pendulum to
\* pull lies beyond the end of the new array
NCResetThrows(s) == s.pendulumsToPull > s.totalPendulums

\* reset(): the instance it leaves behind, also when it throws before onResize
NCReset(s) ==
    LET fresh(i) == [x |-> 0, y |-> 0,
                     angle |-> IF i <= s.pendulumsToPull THEN -maxAngle ELSE 0,
                     velocity |-> 0, mass |-> 1]
        placed(t) == IF NCResetThrows(s) THEN t
                     ELSE NCOnResize(t, canvasWidth, canvasHeight)
    IN  placed([s EXCEPT !.pendulums = [i \in 1..s.totalPendulums |-> fresh(i)]])

\* the body of the integration loop of update(): velocity first, then the
\* angle from the velocity just written
NCIntegrate(s, p, subDt) ==
    LET moved(velocity) ==
            [p EXCEPT !.velocity = velocity,
                      !.angle = p.angle + MulM(velocity, subDt)]
    IN  moved(p.velocity
              + MulM(-(MulM(s.gravity, SinM(p.angle)) \div stringLength), subDt))

\* the body of the loop of handleCollisions() for the pair (i, i + 1)
NCCollidePair(s, ps, i) ==
    LET p1 == ps[i]
        p2 == ps[i + 1]
        dx == p2.x - p1.x
        dy == p2.y - p1.y
        v1 == p1.velocity * stringLength
        v2 == p2.velocity * stringLength
        \* the velocity and position corrections
        exchanged(impulse, shift, sin1, sin2) ==
            [ps EXCEPT
               ![i] = [p1 EXCEPT !.velocity = @ - MulM(impulse * p2.mass, sin1),
                                 !.angle = @ - shift],
               ![i + 1] = [p2 EXCEPT !.velocity = @ + MulM(impulse * p1.mass, sin2),
                                     !.angle = @ + shift]]
        \* the collision along the normal (nx, ny), from Math.cos and Math.sin
        \* of the two angles
        along(distance, nx, ny, cos1, sin1, cos2, sin2) ==
            exchanged(
                MulM((2 * ((MulM(MulM(v1, cos1), nx) + MulM(MulM(v1, sin1), ny))
                           - (MulM(MulM(v2, cos2), nx) + MulM(MulM(v2, sin2), ny))))
                     \div (p1.mass + p2.mass),
                     s.restitution),
                (((2 * pendulumRadius * NPX - distance) * (nx \div NPX))
                 \div (2 * stringLength * NPX)) * NPX,
                sin1, sin2)
        tested(distance) ==
            IF distance < 2 * pendulumRadius * NPX
            THEN along(distance,
                       ((dx * (NQ \div NPX)) \div distance) * NPX,
                       ((dy * (NQ \div NPX)) \div distance) * NPX,
                       CosM(p1.angle), SinM(p1.angle), CosM(p2.angle), SinM(p2.angle))
            ELSE ps
    IN  tested(ISqrt(dx * dx + dy * dy))

RECURSIVE NCCollideFrom(_, _, _)
NCCollideFrom(s, ps, i) ==
    IF i >= Len(ps) THEN ps ELSE NCCollideFrom(s, NCCollidePair(s, ps, i), i + 1)

NCHandleCollisions(s) == [s EXCEPT !.pendulums = NCCollideFrom(s, s.pendulums, 1)]

\* one pass of the sub-step loop of update()
NCSubStep(s, subDt) ==
    NCHandleCollisions(NCUpdatePendulumPositions(
        [s EXCEPT !.pendulums =
            Tabulate([i \in 1..Len(s.pendulums) |-> NCIntegrate(s, s.pendulums[i], subDt)],
                     Len(s.pendulums))]))

RECURSIVE NCSubSteps(_, _, _)
NCSubSteps(s, subDt, n) ==
    IF n = 0 THEN s ELSE NCSubSteps(NCSubStep(s, subDt), subDt, n - 1)

RECURSIVE NCSum(_, _, _)
\* the sum of f[i] over 1..n
NCSum(f, n, acc) == IF n = 0 THEN acc ELSE NCSum(f, n - 1, acc + f[n])

\* calculateEnergy(); energies in 1/1000, momentum in 1/NQ
NCCalculateEnergy(s) ==
    LET n   == Len(s.pendulums)
        vel == [i \in 1..n |-> s.pendulums[i].velocity * stringLength]
        ke  == [i \in 1..n |-> (s.pendulums[i].mass * MulM(vel[i], vel[i])) \div 2000]
        pe  == [i \in 1..n |->
                  (s.pendulums[i].mass
                   * MulM(s.gravity, stringLength * (NQ - CosM(s.pendulums[i].angle))))
                  \div 1000]
        mom == [i \in 1..n |-> s.pendulums[i].mass * vel[i]]
        published(kineticEnergy, potentialEnergy) ==
            [s EXCEPT !.values = [kineticEnergy |-> kineticEnergy,
                                  potentialEnergy |-> potentialEnergy,
                                  totalEnergy |-> kineticEnergy + potentialEnergy,
                                  momentum |-> Abs(NCSum(mom, n, 0))]]
    IN  published(NCSum(ke, n, 0), NCSum(pe, n, 0))

\* updateEnergyChart(): each data set drops its first entry and takes one
NCUpdateEnergyChart(s) ==
    [s EXCEPT !.energyChart =
        [kinetic   |-> Append(Tail(s.energyChart.kinetic), s.values.kineticEnergy),
         potential |-> Append(Tail(s.energyChart.potential), s.values.potentialEnergy),
         total     |-> Append(Tail(s.energyChart.total), s.values.totalEnergy)]]

NCUpdate(s, dt) ==
    NCUpdateEnergyChart(NCCalculateEnergy(NCSubSteps(s, dt \div subSteps, subSteps)))

\* constructor: field initialisers, reset(), initEnergyChart(), parameters, values
NCNew ==
    LET zeros == [i \in 1..chartWindow |-> 0]
    IN  NCReset(
        [cls |-> "NewtonsCradle",
         gravity |-> NCGravity0, restitution |-> NCRestitution0,
         totalPendulums |-> NCTotalPendulums0, pendulumsToPull |-> NCPendulumsToPull0,
         centerX |-> 0, centerY |-> 0,
         pendulums |-> <<>>,
         energyChart |-> [kinetic |-> zeros, potential |-> zeros, total |-> zeros],
         values |-> [kineticEnergy |-> 0, potentialEnergy |-> 0,
                     totalEnergy |-> 0, momentum |-> 0]])

(* ============================ ParticleInBox ============================ *)
\* fixed-point unit of the box: lengths, masses, times, coefficients and phases
\* in 1/PQ, energies in 1/NQ
PQ == 1000

\* constructor defaults (particleInBox.js:7-30)
PIBMass0 == 1000
PIBBoxLength0 == 10000
PIBTimeStep0 == 50

\* (PI^2 hbar^2) / (2 mass) with hbar = 1, in 1/NQ
PIBBaseEnergy(s) == ((MulM(PIM, PIM) \div 2) \div (s.mass \div 10)) * 100

\* n^2 / side^2 times the base energy, in 1/NQ
PIBTerm(s, n, side) == (PIBBaseEnergy(s) * n * n) \div ((side * side) \div (PQ * PQ))

\* the energy of the state (nx, ny, nz) in the current box
PIBEnergyOf(s, nx, ny, nz) ==
    PIBTerm(s, nx, s.boxLength)
    + (IF s.dimensions >= 2 THEN PIBTerm(s, ny, s.boxWidth) ELSE 0)
    + (IF s.dimensions >= 3 THEN PIBTerm(s, nz, s.boxHeight) ELSE 0)

\* what the grid of calculateWaveFunction() and the two uncertainties of
\* calculateUncertainties() are functions of
PIBWaveInputs(s) ==
    [dimensions |-> s.dimensions, mass |-> s.mass,
     boxLength |-> s.boxLength, boxWidth |-> s.boxWidth, boxHeight |-> s.boxHeight,
     isSuperposition |-> s.isSuperposition,
     states |-> IF s.isSuperposition THEN s.superpositionStates
                ELSE <<[nx |-> s.nx, ny |-> s.ny, nz |-> s.nz]>>,
     time |-> IF s.isSuperposition THEN s.time ELSE 0]

PIBUncertaintyInputs(s) ==
    [dimensions |-> s.dimensions,
     boxLength |-> s.boxLength, boxWidth |-> s.boxWidth, boxHeight |-> s.boxHeight,
     nx |-> s.nx, ny |-> s.ny, nz |-> s.nz]

\* calculateEnergies(): currentEnergy, the lowest level and the uncertainties
PIBCalculateEnergies(s) ==
    LET e == PIBEnergyOf(s, s.nx, s.ny, s.nz)
    IN  [s EXCEPT !.currentEnergy = e,
                  !.values.energy = e,
                  !.values.groundEnergy = PIBEnergyOf(s, 1, 1, 1),
                  !.values.uncertainty = PIBUncertaintyInputs(s)]

\* calculateWaveFunction(): the grid, held as the inputs it was computed from
PIBCalculateWaveFunction(s) == [s EXCEPT !.waveFunctionData = PIBWaveInputs(s)]

\* normalizeSuperposition()
PIBNormalizeSuperposition(states) ==
    LET sq(i)      == (states[i].coefficient * states[i].coefficient) \div PQ
        sumSquared == sq(1) + sq(2) + sq(3)
        root       == ISqrt(sumSquared * PQ)
    IN  [i \in 1..Len(states) |->
            [states[i] EXCEPT !.coefficient = (@ * PQ) \div root]]

PIBInitializeSuperposition(s) ==
    PIBCalculateWaveFunction(
        [s EXCEPT !.superpositionStates = PIBNormalizeSuperposition(
            << [nx |-> 1, ny |-> 1, nz |-> 1, coefficient |-> 700, phase |-> 0],
               [nx |-> 2, ny |-> 1, nz |-> 1, coefficient |-> 500, phase |-> PI \div 4],
               [nx |-> 3, ny |-> 1, nz |-> 1, coefficient |-> 300, phase |-> PI \div 2] >>)])

PIBSingleState == << [nx |-> 1, ny |-> 1, nz |-> 1, coefficient |-> PQ, phase |-> 0] >>

PIBReset(s) ==
    PIBCalculateWaveFunction(PIBCalculateEnergies(
        [s EXCEPT !.time = 0, !.nx = 1, !.ny = 1, !.nz = 1,
                  !.isSuperposition = FALSE,
                  !.superpositionStates = PIBSingleState]))

PIBUpdate(s, dt) ==
    IF s.animate /\ (s.viewMode = "realtime" \/ s.isSuperposition)
    THEN PIBCalculateWaveFunction([s EXCEPT !.time = s.time + s.timeStep])
    ELSE s

\* constructor: field initialisers, then updateQuantumStates(),
\* calculateEnergies() and calculateWaveFunction()
PIBNew ==
    PIBCalculateWaveFunction(PIBCalculateEnergies(
        [cls |-> "ParticleInBox",
         mass |-> PIBMass0,
         boxLength |-> PIBBoxLength0, boxWidth |-> PIBBoxLength0,
         boxHeight |-> PIBBoxLength0,
         dimensions |-> 1, nx |-> 1, ny |-> 1, nz |-> 1,
         isSuperposition |-> FALSE, superpositionStates |-> PIBSingleState,
         viewMode |-> "wavefunction", animate |-> TRUE,
         time |-> 0, timeStep |-> PIBTimeStep0,
         currentEnergy |-> 0, waveFunctionData |-> <<>>,
         values |-> [energy |-> 0, groundEnergy |-> 0, uncertainty |-> <<>>]]))

(* ============================= WaveFunction ============================ *)
\* fixed-point units of the wave function: amplitudes, probabilities and
\* expectation values in 1/WQ, parameters and times in 1/PQ
WQ == 10000

\* number of grid points kept of the 512 of the program
gridSize == 8

\* constructor defaults (waveFunction.js:7-25), in 1/PQ
WFHbar0 == 1000
WFMass0 == 1000
WFDx == 100
WFDt == 1
WFPotentialHeight0 == 5000
WFPotentialWidth0 == 200
WFPotentialCenter0 == 500
WFPacketCenter0 == 200
WFPacketWidth0 == 50
WFPacketMomentum0 == 20000
\* the length limit of the expectation-value histories
WFMaxPoints == 100
\* the value of 0 / 0, of 0 * Infinity and of the square root of a negative
\* number: an integer no computation of the model produces
NaN == -2000000001

\* Math.exp(-u) for u >= 0 in 1/PQ, result in 1/WQ: 2^-n times the series
ExpNeg(u) ==
    LET n  == u \div 693
        r  == u % 693
        t2 == (r * r) \div 2000
        t3 == (t2 * r) \div 3000
        t4 == (t3 * r) \div 4000
        e  == PQ - r + t2 - t3 + t4
    IN  IF n > 20 THEN 0 ELSE (e * (WQ \div PQ)) \div (2 ^ n)

RECURSIVE WFSum(_, _, _)
\* the sum of f[i] over 1..n
WFSum(f, n, acc) == IF n = 0 THEN acc ELSE WFSum(f, n - 1, acc + f[n])

\* updatePotential() for potentialType 'barrier'; grid index i is array
\* index i - 1
WFUpdatePotential(s) ==
    LET centerIdx == (s.potentialCenter * gridSize) \div PQ
        halfWidth == (s.potentialWidth * gridSize) \div (2 * PQ)
    IN  [s EXCEPT !.potential =
            [i \in 1..gridSize |->
                IF i - 1 >= centerIdx - halfWidth /\ i - 1 <= centerIdx + halfWidth
                THEN s.potentialHeight ELSE 0]]

WFNormalizeWaveFunction(s) ==
    LET sq == [i \in 1..gridSize |->
                 (s.realPart[i] * s.realPart[i]
                  + s.imagPart[i] * s.imagPart[i]) \div WQ]
        \* every element divided by Math.sqrt(totalProb)
        scaled(root) ==
            IF root = 0
            THEN [s EXCEPT !.realPart = [i \in 1..gridSize |-> NaN],
                           !.imagPart = [i \in 1..gridSize |-> NaN]]
            ELSE [s EXCEPT
                    !.realPart = [i \in 1..gridSize |-> (s.realPart[i] * WQ) \div root],
                    !.imagPart = [i \in 1..gridSize |-> (s.imagPart[i] * WQ) \div root]]
    IN  scaled(ISqrt(WFSum(sq, gridSize, 0) * WQ))

WFInitializeWavePacket(s) ==
    LET centerIdx == (s.packetCenter * gridSize) \div PQ
        sigma     == s.packetWidth * gridSize
        k         == (s.packetMomentum * PQ) \div s.hbar
        twoSigma2 == (2 * sigma * sigma) \div PQ
        gaussian(norm, x) == (norm * ExpNeg((x * x * PQ * PQ) \div twoSigma2)) \div PQ
        filled(norm) ==
            [s EXCEPT
               !.realPart = Tabulate([i \in 1..gridSize |->
                   (gaussian(norm, i - 1 - centerIdx)
                    * (CosM(k * (i - 1 - centerIdx) * PQ) \div (NQ \div WQ))) \div WQ],
                   gridSize),
               !.imagPart = Tabulate([i \in 1..gridSize |->
                   (gaussian(norm, i - 1 - centerIdx)
                    * (SinM(k * (i - 1 - centerIdx) * PQ) \div (NQ \div WQ))) \div WQ],
                   gridSize)]
    IN  WFNormalizeWaveFunction(
            filled((PQ * PQ) \div ISqrt(((sigma * ISqrt(PI * PQ)) \div PQ) * PQ)))

WFUpdateProbabilityDensity(s) ==
    [s EXCEPT !.probabilityDensity =
        [i \in 1..gridSize |->
            (s.realPart[i] * s.realPart[i] + s.imagPart[i] * s.imagPart[i]) \div WQ]]

\* v / dx^2
WFDivDx2(v) == (((v * PQ) \div WFDx) * PQ) \div WFDx

\* Math.sqrt of a value in 1/WQ; NaN below zero
WFSqrt(v) == IF v < 0 THEN NaN ELSE ISqrt(v) * 100

\* calculateExpectationValues(): the published values and one more sample in
\* each of the three histories
WFCalculateExpectationValues(s) ==
    LET re == s.realPart
        im == s.imagPart
        pd == s.probabilityDensity
        inner == gridSize - 2
        dReal(i) == ((re[i + 1] - re[i - 1]) * PQ) \div (2 * WFDx)
        dImag(i) == ((im[i + 1] - im[i - 1]) * PQ) \div (2 * WFDx)
        pReal(i) == -((s.hbar * dImag(i)) \div PQ)
        pImag(i) == (s.hbar * dReal(i)) \div PQ
        hbar2    == (s.hbar * s.hbar) \div PQ
        p2Real(i) == -MulQ(hbar2, WFDivDx2(re[i + 1] - 2 * re[i] + re[i - 1]), PQ)
        p2Imag(i) == -MulQ(hbar2, WFDivDx2(im[i + 1] - 2 * im[i] + im[i - 1]), PQ)
        \* the assignments to this.values and the three pushes
        published(posExpect, momExpect, posUncertainty, momUncertainty,
                  kineticEnergy, potentialEnergy) ==
            [s EXCEPT
               !.values.position = posExpect,
               !.values.momentum = momExpect,
               !.values.positionUncertainty = posUncertainty,
               !.values.momentumUncertainty = momUncertainty,
               !.values.uncertaintyProduct =
                   IF posUncertainty = NaN \/ momUncertainty = NaN THEN NaN
                   ELSE MulQ(posUncertainty, momUncertainty, WQ),
               !.values.energy = kineticEnergy + potentialEnergy,
               !.positionExpectation = PushLimit(@, posExpect, WFMaxPoints),
               !.momentumExpectation = PushLimit(@, momExpect, WFMaxPoints),
               !.timePoints = PushLimit(@, s.time, WFMaxPoints)]
        fromMoments(posExpect, pos2Expect, momExpect, mom2Expect) ==
            published(posExpect, momExpect,
                      WFSqrt(pos2Expect - MulQ(posExpect, posExpect, WQ)),
                      WFSqrt(mom2Expect - MulQ(momExpect, momExpect, WQ)),
                      ((mom2Expect \div 2) * 10) \div (s.mass \div 100),
                      WFSum([i \in 1..gridSize |-> (s.potential[i] * pd[i]) \div PQ],
                            gridSize, 0))
    IN  fromMoments(
            WFSum([i \in 1..gridSize |-> (i - 1) * pd[i]], gridSize, 0),
            WFSum([i \in 1..gridSize |-> (i - 1) * (i - 1) * pd[i]], gridSize, 0),
            WFSum([j \in 1..inner |->
                     (re[j + 1] * pReal(j + 1) + im[j + 1] * pImag(j + 1)) \div WQ],
                  inner, 0),
            WFSum([j \in 1..inner |->
                     MulQ(re[j + 1], p2Real(j + 1), WQ)
                     + MulQ(im[j + 1], p2Imag(j + 1), WQ)],
                  inner, 0))

WFReset(s) ==
    LET zeros == [i \in 1..gridSize |-> 0]
    IN  WFCalculateExpectationValues(WFUpdateProbabilityDensity(WFInitializeWavePacket(
            [s EXCEPT !.time = 0,
                      !.realPart = zeros, !.imagPart = zeros,
                      !.probabilityDensity = zeros,
                      !.positionExpectation = <<>>,
                      !.momentumExpectation = <<>>,
                      !.timePoints = <<>>])))

\* evolveWaveFunction(); renormalize is the outcome of Math.random() < 0.01
WFEvolveWaveFunction(s, renormalize) ==
    LET re == s.realPart
        im == s.imagPart
        c  == (s.hbar * s.hbar) \div (2 * s.mass)
        interior(i) == i > 1 /\ i < gridSize
        bounded(next) ==
            IF s.boundaryType = "periodic"
            THEN [next EXCEPT ![1] = next[gridSize - 1], ![gridSize] = next[2]]
            ELSE next
        normalized(t) == IF renormalize THEN WFNormalizeWaveFunction(t) ELSE t
        stored(nextReal, nextImag) ==
            normalized([s EXCEPT !.realPart = bounded(nextReal),
                                 !.imagPart = bounded(nextImag)])
        \* the second loop: the real part from the imaginary part just computed
        fromImag(nextImag) ==
            stored(Tabulate([i \in 1..gridSize |->
                       IF interior(i)
                       THEN re[i] - (WFDt * (-MulQ(c, WFDivDx2(nextImag[i + 1]
                                                               + nextImag[i - 1]
                                                               - 2 * nextImag[i]), PQ)
                                             + (s.potential[i] * nextImag[i]) \div PQ))
                                    \div s.hbar
                       ELSE 0], gridSize),
                   nextImag)
    IN  fromImag(Tabulate([i \in 1..gridSize |->
            IF interior(i)
            THEN im[i] + (WFDt * (-MulQ(c, WFDivDx2(re[i + 1] + re[i - 1] - 2 * re[i]), PQ)
                                  + (s.potential[i] * re[i]) \div PQ)) \div s.hbar
            ELSE 0], gridSize))

RECURSIVE WFEvolveSteps(_, _)
\* the loop of update(): one evolution and one time increment per step
WFEvolveSteps(s, renormalizes) ==
    IF renormalizes = <<>> THEN s
    ELSE WFEvolveSteps(
             [WFEvolveWaveFunction(s, Head(renormalizes)) EXCEPT !.time = @ + WFDt],
             Tail(renormalizes))

\* Math.max(1, Math.floor(dt / this.dt))
WFNumSteps(dt) == IF dt \div WFDt > 1 THEN dt \div WFDt ELSE 1

WFUpdate(s, dt, renormalizes) ==
    IF s.isPaused THEN s
    ELSE LET published(t) == [t EXCEPT !.values.time = t.time]
         IN  published(WFCalculateExpectationValues(WFUpdateProbabilityDensity(
                 WFEvolveSteps(s, renormalizes))))

\* constructor: field initialisers, updatePotential(), reset()
WFNew ==
    LET zeros == [i \in 1..gridSize |-> 0]
    IN  WFReset(WFUpdatePotential(
        [cls |-> "WaveFunction",
         hbar |-> WFHbar0, mass |-> WFMass0,
         potentialType |-> "barrier", potentialHeight |-> WFPotentialHeight0,
         potentialWidth |-> WFPotentialWidth0, potentialCenter |-> WFPotentialCenter0,
         boundaryType |-> "infinite",
         packetCenter |-> WFPacketCenter0, packetWidth |-> WFPacketWidth0,
         packetMomentum |-> WFPacketMomentum0,
         time |-> 0, isPaused |-> FALSE,
         realPart |-> zeros, imagPart |-> zeros, potential |-> zeros,
         probabilityDensity |-> zeros,
         positionExpectation |-> <<>>, momentumExpectation |-> <<>>,
         timePoints |-> <<>>,
         values |-> [time |-> 0, energy |-> 0, position |-> 0, momentum |-> 0,
                     positionUncertainty |-> 0, momentumUncertainty |-> 0,
                     uncertaintyProduct |-> 0]]))

(* ============================= OrbitalMotion =========================== *)
\* Units of the orbit model: positions in pixels, velocities in the program's
\* velocity unit, times in seconds, masses in 10^22 kg.  A magnitude of
\* OMLimit or more stands for every value beyond the represented range,
\* Infinity included, and is absorbing; NaN is absorbing before it.
OMLimit == 1000000000

OMFar(a) == a >= OMLimit \/ a <= -OMLimit
OMSat(v) == IF v >= OMLimit THEN OMLimit ELSE IF v <= -OMLimit THEN -OMLimit ELSE v
OMSign(a) == IF a < 0 THEN -1 ELSE 1

OMAdd(a, b) ==
    IF a = NaN \/ b = NaN THEN NaN
    ELSE IF OMFar(a) THEN a
    ELSE IF OMFar(b) THEN b
    ELSE OMSat(a + b)

OMSub(a, b) == OMAdd(a, IF b = NaN THEN NaN ELSE -b)

OMMul(a, b) ==
    IF a = NaN \/ b = NaN THEN NaN
    ELSE IF a = 0 \/ b = 0 THEN 0
    ELSE IF Abs(a) >= OMLimit \div Abs(b) THEN OMSign(a) * OMSign(b) * OMLimit
    ELSE a * b

\* a / b, truncated; x / 0 is an infinity and 0 / 0 is NaN
OMDiv(a, b) ==
    IF a = NaN \/ b = NaN THEN NaN
    ELSE IF b = 0 THEN (IF a = 0 THEN NaN ELSE OMSign(a) * OMLimit)
    ELSE IF OMFar(a) THEN OMSign(a) * OMSign(b) * OMLimit
    ELSE IF OMFar(b) THEN 0
    ELSE OMSign(a) * OMSign(b) * (Abs(a) \div Abs(b))

RECURSIVE OMSum(_, _, _)
\* the sum of f[i] over 1..n
OMSum(f, n, acc) == IF n = 0 THEN acc ELSE OMSum(f, n - 1, OMAdd(acc, f[n]))

\* Math.sqrt(dx*dx + dy*dy) in pixels
OMDistance(dx, dy) ==
    LET root(sq) == IF OMFar(sq) THEN ISqrt(OMLimit) ELSE ISqrt(sq)
    IN  IF dx = NaN \/ dy = NaN THEN NaN
        ELSE IF OMFar(dx) \/ OMFar(dy) THEN OMLimit
        ELSE root(OMAdd(OMMul(dx, dx), OMMul(dy, dy)))

\* constructor defaults (doublependulum.js:944-960): G times 10^22 kg in
\* units of 10^6, the time step in seconds, the time scale in tenths
OMG0 == 667430
OMTimeStep0 == 3600
OMTimeScale0 == 10
trajectoryLength == 1000
OMMaxEnergyPoints == 100
\* mass and radius of a body made with the mouse (doublependulum.js:1253-1265)
OMNewBodyMass == 597
OMNewBodyRadius == 10

\* the acceleration that the body of mass m at (ox, oy) gives a body at
\* (x, y): G m / distSq along (dx, dy) / dist, the mass of the accelerated
\* body cancelling; distances enter in units of 1000 pixels
OMPull(s, x, y, ox, oy, m) ==
    LET \* force / distance along (dx, dy); at distance 0 the quotient is an
        \* infinity or NaN
        directed(dx, dy, dxK, dyK, distK, mag) ==
            IF distK = 0
            THEN << IF dx = 0 THEN 0 ELSE OMSign(dx) * OMLimit,
                    IF dy = 0 THEN 0 ELSE OMSign(dy) * OMLimit >>
            ELSE << OMDiv(OMMul(mag, dxK), distK), OMDiv(OMMul(mag, dyK), distK) >>
        fromSquare(dx, dy, dxK, dyK, distSqK) ==
            directed(dx, dy, dxK, dyK, ISqrt(distSqK), OMDiv(OMMul(s.G, m), distSqK))
        fromKilo(dx, dy, dxK, dyK) ==
            fromSquare(dx, dy, dxK, dyK, OMAdd(OMMul(dxK, dxK), OMMul(dyK, dyK)))
        between(dx, dy) ==
            IF dx = NaN \/ dy = NaN \/ (dx = 0 /\ dy = 0) THEN <<NaN, NaN>>
            ELSE IF OMFar(dx) \/ OMFar(dy) THEN <<0, 0>>
            ELSE fromKilo(dx, dy, OMDiv(dx, 1000), OMDiv(dy, 1000))
    IN  between(OMSub(ox, x), OMSub(oy, y))

\* the inner loop over j of one stage: the sum of the pulls on body i at
\* (xs[i], ys[i]) from every other body
OMAcceleration(s, xs, ys, i) ==
    LET n == Len(s.bodies)
        summed(pull) == << OMSum([j \in 1..n |-> pull[j][1]], n, 0),
                           OMSum([j \in 1..n |-> pull[j][2]], n, 0) >>
    IN  summed([j \in 1..n |->
                  IF j = i THEN <<0, 0>>
                  ELSE OMPull(s, xs[i], ys[i], xs[j], ys[j], s.bodies[j].mass)])

\* the four stages and the combination step of updatePhysics(dt), before the
\* collision pass; the dragged body, if it is in the list, is not moved
OMIntegrate(s, dt) ==
    LET n  == Len(s.bodies)
        b  == s.bodies
        skip(i) == i = s.draggingBody
        \* k * dt / 2 for the half steps (d = 2), k * dt for the full step (d = 1)
        by(k, d) == IF d = 2 THEN OMDiv(OMMul(k, dt), 2) ELSE OMMul(k, dt)
        \* the positions a stage is evaluated at, from the velocities kvx, kvy of
        \* the stage before
        xsAt(kvx, d) ==
            Tabulate([i \in 1..n |-> IF skip(i) THEN b[i].x
                                     ELSE OMAdd(b[i].x, by(kvx[i], d))], n)
        ysAt(kvy, d) ==
            Tabulate([i \in 1..n |-> IF skip(i) THEN b[i].y
                                     ELSE OMAdd(b[i].y, by(kvy[i], d))], n)
        \* the velocities of a stage, from the accelerations ka of the stage before
        vxAt(ka, d) == Tabulate([i \in 1..n |-> OMAdd(b[i].vx, by(ka[i][1], d))], n)
        vyAt(ka, d) == Tabulate([i \in 1..n |-> OMAdd(b[i].vy, by(ka[i][2], d))], n)
        accelerations(xs, ys) ==
            Tabulate([i \in 1..n |-> OMAcceleration(s, xs, ys, i)], n)
        sixth(k1, k2, k3, k4) ==
            OMMul(OMDiv(dt, 6), OMAdd(OMAdd(k1, OMMul(2, k2)), OMAdd(OMMul(2, k3), k4)))
        moved(i, x, y, vx, vy) ==
            [b[i] EXCEPT
               !.x = x, !.y = y, !.vx = vx, !.vy = vy,
               !.trajectory = IF s.showTrajectories
                              THEN PushLimit(@, <<x, y>>, trajectoryLength)
                              ELSE @]
        combined(k1a, k2vx, k2vy, k2a, k3vx, k3vy, k3a, k4vx, k4vy, k4a) ==
            [s EXCEPT !.bodies = Tabulate([i \in 1..n |->
                IF skip(i) THEN b[i]
                ELSE moved(i,
                       OMAdd(b[i].x, sixth(b[i].vx, k2vx[i], k3vx[i], k4vx[i])),
                       OMAdd(b[i].y, sixth(b[i].vy, k2vy[i], k3vy[i], k4vy[i])),
                       OMAdd(b[i].vx, sixth(k1a[i][1], k2a[i][1], k3a[i][1], k4a[i][1])),
                       OMAdd(b[i].vy, sixth(k1a[i][2], k2a[i][2], k3a[i][2], k4a[i][2])))],
                n)]
        stage4(k1a, k2vx, k2vy, k2a, k3vx, k3vy, k3a) ==
            combined(k1a, k2vx, k2vy, k2a, k3vx, k3vy, k3a,
                     vxAt(k3a, 1), vyAt(k3a, 1),
                     accelerations(xsAt(k3vx, 1), ysAt(k3vy, 1)))
        stage3(k1a, k2vx, k2vy, k2a) ==
            stage4(k1a, k2vx, k2vy, k2a,
                   vxAt(k2a, 2), vyAt(k2a, 2),
                   accelerations(xsAt(k2vx, 2), ysAt(k2vy, 2)))
        stage2(k1a) ==
            stage3(k1a,
                   vxAt(k1a, 2), vyAt(k1a, 2),
                   accelerations(xsAt([i \in 1..n |-> b[i].vx], 2),
                                 ysAt([i \in 1..n |-> b[i].vy], 2)))
    IN  stage2(accelerations([i \in 1..n |-> b[i].x], [i \in 1..n |-> b[i].y]))

RECURSIVE ICbrtFrom(_, _)
ICbrtFrom(n, r) == IF (r + 1) * (r + 1) * (r + 1) > n THEN r ELSE ICbrtFrom(n, r + 1)

\* Math.pow(r1^3 + r2^3, 1/3), in whole pixels
OMMergedRadius(r1, r2) == ICbrtFrom(r1 * r1 * r1 + r2 * r2 * r2, 0)

\* a merge that averages position and velocity without the mass weights
OMMergeUnweighted(body1, body2) ==
    LET half(a, b) == OMDiv(OMAdd(a, b), 2)
        merged(newX, newY, newVx, newVy) ==
            [x |-> newX, y |-> newY, vx |-> newVx, vy |-> newVy,
             mass |-> body1.mass + body2.mass,
             radius |-> OMMergedRadius(body1.radius, body2.radius),
             trajectory |-> <<>>,
             initial |-> [x |-> newX, y |-> newY, vx |-> newVx, vy |-> newVy]]
    IN  merged(half(body1.x, body2.x), half(body1.y, body2.y),
               half(body1.vx, body2.vx), half(body1.vy, body2.vy))

\* the body that a collision of body1 and body2 makes: the mass-weighted mean
\* (a m1 + b m2) / (m1 + m2), written as a + (b - a) m2 / (m1 + m2)
OMMerge(body1, body2) ==
    LET totalMass == body1.mass + body2.mass
        mean(a, b) == OMAdd(a, OMDiv(OMMul(OMSub(b, a), body2.mass), totalMass))
        merged(newX, newY, newVx, newVy) ==
            [x |-> newX, y |-> newY, vx |-> newVx, vy |-> newVy,
             mass |-> totalMass, radius |-> OMMergedRadius(body1.radius, body2.radius),
             trajectory |-> <<>>,
             initial |-> [x |-> newX, y |-> newY, vx |-> newVx, vy |-> newVy]]
    IN  merged(mean(body1.x, body2.x), mean(body1.y, body2.y),
               mean(body1.vx, body2.vx), mean(body1.vy, body2.vy))

OMOverlap(body1, body2) ==
    LET within(d) == d # NaN /\ d < body1.radius + body2.radius
    IN  within(OMDistance(OMSub(body2.x, body1.x), OMSub(body2.y, body1.y)))

RECURSIVE OMFirstPartner(_, _, _, _)
\* the inner loop of handleCollisions(): the first j > i, not yet collided,
\* that overlaps body i; 0 if there is none
OMFirstPartner(bodies, collided, i, j) ==
    IF j > Len(bodies) THEN 0
    ELSE IF j \notin collided /\ OMOverlap(bodies[i], bodies[j]) THEN j
    ELSE OMFirstPartner(bodies, collided, i, j + 1)

RECURSIVE OMCollideFrom(_, _)
\* the outer loop of handleCollisions() from index c.i on: the list grows by
\* the merged bodies while the loop runs; selected is the list index of
\* selectedBody, 0 for null
OMCollideFrom(c, i) ==
    LET \* the rest of the loop once the partner j of body i is known
        paired(j) ==
            IF j = 0 THEN OMCollideFrom(c, i + 1)
            ELSE OMCollideFrom(
                     [bodies   |-> Append(c.bodies, OMMerge(c.bodies[i], c.bodies[j])),
                      collided |-> c.collided \cup {i, j},
                      selected |-> IF c.selected \in {i, j}
                                   THEN Len(c.bodies) + 1 ELSE c.selected],
                     i + 1)
    IN  IF i > Len(c.bodies) THEN c
        ELSE IF i \in c.collided THEN OMCollideFrom(c, i + 1)
        ELSE paired(OMFirstPartner(c.bodies, c.collided, i, i + 1))

\* the list index after the filter of the body at index k before it
OMNewIndex(collided, k) == Cardinality({m \in 1..k : m \notin collided})

OMHandleCollisions(s) ==
    LET \* the filter at the end, c the outcome of the two loops
        filtered(c) ==
            LET kept == SelectSeq([k \in 1..Len(c.bodies) |-> k],
                                  LAMBDA k : k \notin c.collided)
            IN  [s EXCEPT
                   !.bodies = [m \in 1..Len(kept) |-> c.bodies[kept[m]]],
                   !.selectedBody = IF c.selected <= 0 THEN c.selected
                                    ELSE OMNewIndex(c.collided, c.selected),
                   \* the dragged body is not looked at: when it was merged away
                   \* the reference stays on an object that is no longer in the
                   \* list (-1)
                   !.draggingBody = IF s.draggingBody <= 0 THEN s.draggingBody
                                    ELSE IF s.draggingBody \in c.collided THEN -1
                                    ELSE OMNewIndex(c.collided, s.draggingBody)]
    IN  filtered(OMCollideFrom([bodies |-> s.bodies, collided |-> {},
                                selected |-> s.selectedBody], 1))

OMUpdatePhysics(s, dt) ==
    LET collided(t) == IF s.collisionsEnabled THEN OMHandleCollisions(t) ELSE t
    IN  collided(OMIntegrate(s, dt))

\* updateValues(): time in 1/1000 day, energies in 10^28 J
OMUpdateValues(s) ==
    LET n  == Len(s.bodies)
        b  == s.bodies
        ke == [i \in 1..n |->
                 OMDiv(OMMul(b[i].mass,
                             OMAdd(OMMul(OMDiv(b[i].vx, 1000), OMDiv(b[i].vx, 1000)),
                                   OMMul(OMDiv(b[i].vy, 1000), OMDiv(b[i].vy, 1000)))),
                       2)]
        pair(i, j) ==
            OMDiv(OMMul(OMMul(b[i].mass, b[j].mass), 6674),
                  OMMul(OMDistance(OMSub(b[j].x, b[i].x), OMSub(b[j].y, b[i].y)),
                        10000000))
        pe == [i \in 1..n |->
                 OMSum([j \in 1..n |-> IF j > i THEN pair(i, j) ELSE 0], n, 0)]
        am == [i \in 1..n |->
                 OMMul(b[i].mass,
                       OMSub(OMMul(b[i].x, b[i].vy), OMMul(b[i].y, b[i].vx)))]
        published(kineticEnergy, potentialEnergy) ==
            [s EXCEPT !.values =
                [time |-> (s.time * 10) \div 864,
                 bodies |-> n,
                 kineticEnergy |-> kineticEnergy,
                 potentialEnergy |-> potentialEnergy,
                 totalEnergy |-> OMAdd(kineticEnergy, potentialEnergy),
                 angularMomentum |-> OMSum(am, n, 0)]]
    IN  published(OMSum(ke, n, 0), OMSub(0, OMSum(pe, n, 0)))

\* storeEnergyData(); calculateOrbitalElements() returns null while no body
\* is selected, and nothing is appended to orbitData then
OMStoreEnergyData(s) ==
    [s EXCEPT !.energyData =
        [time      |-> PushLimit(s.energyData.time, (s.time * 10) \div 864,
                                 OMMaxEnergyPoints),
         kinetic   |-> PushLimit(s.energyData.kinetic, s.values.kineticEnergy,
                                 OMMaxEnergyPoints),
         potential |-> PushLimit(s.energyData.potential, s.values.potentialEnergy,
                                 OMMaxEnergyPoints),
         total     |-> PushLimit(s.energyData.total,
                                 OMAdd(s.values.kineticEnergy, s.values.potentialEnergy),
                                 OMMaxEnergyPoints)]]

OMUpdate(s, dt) ==
    IF s.isPaused THEN s
    ELSE LET scaledTimeStep == (s.timeStep * s.timeScale) \div 10
             timed(a)  == [a EXCEPT !.time = s.time + scaledTimeStep]
             stored(b) == IF b.time % (b.timeStep * 10) < b.timeStep
                          THEN OMStoreEnergyData(b) ELSE b
         IN  stored(OMUpdateValues(timed(OMUpdatePhysics(s, scaledTimeStep))))

OMResetDataArrays(s) ==
    [s EXCEPT !.energyData = [time |-> <<>>, kinetic |-> <<>>,
                              potential |-> <<>>, total |-> <<>>],
              !.orbitData = [time |-> <<>>, eccentricity |-> <<>>,
                             semiMajorAxis |-> <<>>]]

\* reset() that empties the body list, as 'Clear All Bodies' does
OMResetEmptiesBodies(s) ==
    LET t == OMResetDataArrays([s EXCEPT !.time = 0])
    IN  [t EXCEPT !.bodies = <<>>,
                  !.viewOffsetX = 0, !.viewOffsetY = 0, !.zoomLevel = 10]

OMReset(s) ==
    LET t == OMResetDataArrays([s EXCEPT !.time = 0])
    IN  [t EXCEPT
           !.bodies = [i \in 1..Len(s.bodies) |->
                         [s.bodies[i] EXCEPT !.trajectory = <<>>,
                                             !.x = s.bodies[i].initial.x,
                                             !.y = s.bodies[i].initial.y,
                                             !.vx = s.bodies[i].initial.vx,
                                             !.vy = s.bodies[i].initial.vy]],
           !.viewOffsetX = 0, !.viewOffsetY = 0, !.zoomLevel = 10]

\* the body that addBody(bodyData) appends
OMBody(x, y, vx, vy, mass, radius) ==
    [x |-> x, y |-> y, vx |-> vx, vy |-> vy, mass |-> mass, radius |-> radius,
     trajectory |-> <<>>,
     initial |-> [x |-> x, y |-> y, vx |-> vx, vy |-> vy]]

OMAddBody(s, body) == [s EXCEPT !.bodies = Append(@, body)]

\* the six bodies of createSolarSystem(), positions rounded to whole pixels
OMSolarSystemBodies ==
    << OMBody(0, 0, 0, 0, 198900000, 30),
       OMBody(58, 0, 0, 47360, 33, 5),
       OMBody(108, 0, 0, 35020, 487, 9),
       OMBody(150, 0, 0, 29780, 597, 10),
       OMBody(228, 0, 0, 24070, 64, 8),
       OMBody(779, 0, 0, 13070, 189820, 20) >>

\* this.bodies = []: selectedBody and draggingBody are not assigned, so a
\* reference that was set stays on an object that is no longer in the list (-1)
OMEmptyBodies(s) ==
    [s EXCEPT !.bodies = <<>>,
              !.selectedBody = IF @ = 0 THEN 0 ELSE -1,
              !.draggingBody = IF @ = 0 THEN 0 ELSE -1]

OMCreateSolarSystem(s) ==
    [OMResetDataArrays([OMEmptyBodies(s) EXCEPT !.bodies = OMSolarSystemBodies])
        EXCEPT !.time = 0]

\* constructor: field initialisers, then createSolarSystem()
OMNew ==
    OMCreateSolarSystem(
        [cls |-> "OrbitalMotion",
         G |-> OMG0, timeStep |-> OMTimeStep0, timeScale |-> OMTimeScale0,
         collisionsEnabled |-> TRUE, showTrajectories |-> TRUE,
         bodies |-> <<>>, time |-> 0, isPaused |-> FALSE,
         selectedBody |-> 0, draggingBody |-> 0, isCreatingBody |-> FALSE,
         added |-> 0,
         viewOffsetX |-> 0, viewOffsetY |-> 0, zoomLevel |-> 10,
         energyData |-> [time |-> <<>>, kinetic |-> <<>>,
                         potential |-> <<>>, total |-> <<>>],
         orbitData |-> [time |-> <<>>, eccentricity |-> <<>>, semiMajorAxis |-> <<>>],
         values |-> [time |-> 0, bodies |-> 0, kineticEnergy |-> 0,
                     potentialEnergy |-> 0, totalEnergy |-> 0,
                     angularMomentum |-> 0]])

(* ============================ state machine ============================ *)
Classes == {"LorenzAttractor", "DoublePendulum", "HarmonicOscillator",
            "NewtonsCradle", "ParticleInBox", "WaveFunction", "OrbitalMotion"}

New(c) ==
    CASE c = "LorenzAttractor" -> LorenzNew
      [] c = "DoublePendulum" -> DPNew
      [] c = "HarmonicOscillator" -> HONew
      [] c = "NewtonsCradle" -> NCNew
      [] c = "ParticleInBox" -> PIBNew
      [] c = "WaveFunction" -> WFNew
      [] c = "OrbitalMotion" -> OMNew

\* update(dt) arguments: the 1/60 s of main.js's animate(), and one time step
LorenzDts == {167}
\* slider values inside the declared ranges
LorenzSigmas == {120000}
LorenzInitialXs == {2000}

(* ======================= application controller ======================= *)
\* main.js: simulationCatalog, the `ready` flag of each id
simulationCatalog ==
    [id \in {"newtonsCradle", "core-sim2", "quantum-sim1", "quantum-sim2",
             "gravity-sim1", "gravity-sim2", "doublePendulum", "chaos-sim2"}
        |-> id \in {"newtonsCradle", "doublePendulum"}]

\* main.js, globals after the script has loaded: animationFrameId undefined (0),
\* no timer and no frame request outstanding.  `frames` is the browser's list
\* of requested animation frames, `timers` its list of 500 ms timeouts in
\* firing order, `handles` the last handle requestAnimationFrame returned.
AppNew ==
    [currentSimulation |-> "newtonsCradle",
     animationFrameId |-> 0, frames |-> {}, timers |-> <<>>,
     handles |-> 0, loads |-> 0]

\* if (animationFrameId) cancelAnimationFrame(animationFrameId)
CancelPending(a) ==
    IF a.animationFrameId # 0
    THEN [a EXCEPT !.frames = @ \ {a.animationFrameId}]
    ELSE a

\* animate(), last statement: animationFrameId = requestAnimationFrame(animate)
RequestFrame(a) ==
    [a EXCEPT !.handles = @ + 1,
              !.frames = @ \cup {a.handles + 1},
              !.animationFrameId = a.handles + 1]

\* a loop started without cancelling the frame already requested
StartAnimationLoopKeepsPending(a) == RequestFrame(a)

StartAnimationLoop(a) == RequestFrame(CancelPending(a))

\* loadSimulation(simId), the synchronous part
LoadSimulation(a, simId) ==
    [CancelPending(a) EXCEPT !.currentSimulation = simId,
                             !.animationFrameId = 0,
                             !.timers = Append(@, simId),
                             !.loads = @ + 1]

\* the switch of the delayed initialisation: the class instantiated for an id
InstanceClass(simId) ==
    CASE simId = "newtonsCradle" -> "NewtonsCradle"
      [] simId = "doublePendulum" -> "DoublePendulum"
      [] OTHER -> "none"

\* animate(): simulationInstance.update(1/60)
InstanceUpdate(c, s) ==
    CASE c = "NewtonsCradle" -> NCUpdate(s, 16667)
      [] c = "DoublePendulum" -> DPUpdate(s, 17)
      [] OTHER -> s

\* a call that returned normally
Did(op, s) ==
    /\ inst' = s
    /\ lastOp' = op
    /\ threw' = FALSE
    /\ UNCHANGED <<sim, app>>

Init ==
    /\ sim \in Classes
    /\ inst = New(sim)
    /\ lastOp = "new"
    /\ threw = FALSE
    /\ steps = 0
    /\ app = AppNew

LorenzDoUpdate ==
    /\ sim = "LorenzAttractor"
    /\ steps < MaxSteps
    /\ \E dt \in LorenzDts : Did("update", LorenzUpdate(inst, dt))
    /\ steps' = steps + 1

LorenzDoReset ==
    /\ sim = "LorenzAttractor"
    /\ Did("reset", LorenzReset(inst))
    /\ UNCHANGED steps

\* parameters 'pause': onClick
LorenzDoPause ==
    /\ sim = "LorenzAttractor"
    /\ Did("pause", [inst EXCEPT !.isPaused = ~@])
    /\ UNCHANGED steps

\* parameters 'sigma': onChange
LorenzSetSigma ==
    /\ sim = "LorenzAttractor"
    /\ \E v \in LorenzSigmas : Did("set:sigma", [inst EXCEPT !.sigma = v])
    /\ UNCHANGED steps

\* slider handler (param.value = v), then parameters 'initialX': onChange
LorenzSetInitialX ==
    /\ sim = "LorenzAttractor"
    /\ \E v \in LorenzInitialXs :
           Did("set:initialX",
               LorenzReset([inst EXCEPT !.parameters.initialX = v, !.x = v]))
    /\ UNCHANGED steps

\* parameters 'showComparison': onChange
LorenzSetShowComparison ==
    /\ sim = "LorenzAttractor"
    /\ \E v \in BOOLEAN :
           Did("set:showComparison",
               LET a == [inst EXCEPT !.showComparison = v]
               IN  IF v THEN LorenzResetComparison(a) ELSE a)
    /\ UNCHANGED steps

\* parameters 'clearTrajectory': onClick
LorenzDoClearTrajectory ==
    /\ sim = "LorenzAttractor"
    /\ Did("clearTrajectory", LorenzClearTrajectory(inst))
    /\ UNCHANGED steps

\* DoublePendulum.update ignores dt (fixed time step)
DPDts == {17}
DPGravities == {5000}
DPAngle1s == {785}

DPDoUpdate ==
    /\ sim = "DoublePendulum"
    /\ steps < MaxSteps
    /\ \E dt \in DPDts : Did("update", DPUpdate(inst, dt))
    /\ steps' = steps + 1

DPDoReset ==
    /\ sim = "DoublePendulum"
    /\ Did("reset", DPReset(inst))
    /\ UNCHANGED steps

\* parameters 'pause': onClick
DPDoPause ==
    /\ sim = "DoublePendulum"
    /\ Did("pause", [inst EXCEPT !.isPaused = ~@])
    /\ UNCHANGED steps

\* parameters 'gravity': onChange
DPSetGravity ==
    /\ sim = "DoublePendulum"
    /\ \E v \in DPGravities : Did("set:gravity", [inst EXCEPT !.gravity = v])
    /\ UNCHANGED steps

\* slider handler (param.value = v), then parameters 'angle1': onChange
DPSetAngle1 ==
    /\ sim = "DoublePendulum"
    /\ \E v \in DPAngle1s :
           Did("set:angle1",
               DPReset([inst EXCEPT !.parameters.angle1 = v, !.angle1 = v]))
    /\ UNCHANGED steps

\* parameters 'showComparison': onChange
DPSetShowComparison ==
    /\ sim = "DoublePendulum"
    /\ \E v \in BOOLEAN :
           Did("set:showComparison",
               LET a == [inst EXCEPT !.showComparison = v]
               IN  IF v THEN DPResetComparison(a) ELSE a)
    /\ UNCHANGED steps

DPDoClearTrail ==
    /\ sim = "DoublePendulum"
    /\ Did("clearTrail", DPClearTrail(inst))
    /\ UNCHANGED steps

HODts == {17}
\* values handed to the 'damping' change callback: one inside the declared
\* [0, 2] and one below it
HODampings == {500, -5000}
HOSpringConstants == {20000}
HOInitialPositions == {2000}

HODoUpdate ==
    /\ sim = "HarmonicOscillator"
    /\ steps < MaxSteps
    /\ \E dt \in HODts : Did("update", HOUpdate(inst, dt))
    /\ steps' = steps + 1

HODoReset ==
    /\ sim = "HarmonicOscillator"
    /\ Did("reset", HOReset(inst))
    /\ UNCHANGED steps

\* slider handler (param.value = parseFloat(...)), then 'damping': onChange
HOSetDamping ==
    /\ sim = "HarmonicOscillator"
    /\ \E v \in HODampings :
           Did("set:damping",
               HOCalculateDampingRatio(
                   [inst EXCEPT !.parameters.damping = v, !.damping = v]))
    /\ UNCHANGED steps

\* parameters 'springConstant': onChange
HOSetSpringConstant ==
    /\ sim = "HarmonicOscillator"
    /\ \E v \in HOSpringConstants :
           Did("set:springConstant",
               HOCalculateNaturalFrequency([inst EXCEPT !.springConstant = v]))
    /\ UNCHANGED steps

\* parameters 'initialPosition': onChange
HOSetInitialPosition ==
    /\ sim = "HarmonicOscillator"
    /\ \E v \in HOInitialPositions :
           Did("set:initialPosition", HOReset([inst EXCEPT !.initialPosition = v]))
    /\ UNCHANGED steps

\* onMouseDown with the pointer on the mass, and onMouseUp / mouseleave
HOMouseDown ==
    /\ sim = "HarmonicOscillator"
    /\ Did("mousedown",
           [inst EXCEPT !.isDragging = TRUE,
                        !.dragStartX = HOOriginX + MulQ(inst.position, pixelsPerMeter, HQ),
                        !.dragStartPos = inst.position])
    /\ UNCHANGED steps

HOMouseUp ==
    /\ sim = "HarmonicOscillator"
    /\ Did("mouseup", [inst EXCEPT !.isDragging = FALSE])
    /\ UNCHANGED steps

\* frame time handed to update(), in us
NCDts == {16667}
\* values handed to the change callbacks, all inside the declared ranges
NCGravities == {15000000}
NCRestitutions == {500000}
NCTotalPendulumValues == {2, 5}
NCPendulumsToPullValues == {1, 4}

\* an operation of the cradle that ends in reset(): the exception, if reset()
\* raises one, leaves the callback with the instance as reset() left it
NCDidReset(op, s) ==
    /\ inst' = NCReset(s)
    /\ lastOp' = op
    /\ threw' = NCResetThrows(s)
    /\ UNCHANGED <<sim, steps, app>>

NCDoUpdate ==
    /\ sim = "NewtonsCradle"
    /\ steps < MaxSteps
    /\ \E dt \in NCDts : Did("update", NCUpdate(inst, dt))
    /\ steps' = steps + 1

NCDoReset ==
    /\ sim = "NewtonsCradle"
    /\ NCDidReset("reset", inst)

NCSetGravity ==
    /\ sim = "NewtonsCradle"
    /\ \E v \in NCGravities : NCDidReset("set:gravity", [inst EXCEPT !.gravity = v])

NCSetRestitution ==
    /\ sim = "NewtonsCradle"
    /\ \E v \in NCRestitutions :
           NCDidReset("set:restitution", [inst EXCEPT !.restitution = v])

NCSetTotalPendulums ==
    /\ sim = "NewtonsCradle"
    /\ \E v \in NCTotalPendulumValues :
           NCDidReset("set:totalPendulums", [inst EXCEPT !.totalPendulums = v])

NCSetPendulumsToPull ==
    /\ sim = "NewtonsCradle"
    /\ \E v \in NCPendulumsToPullValues :
           NCDidReset("set:pendulumsToPull",
                      [inst EXCEPT !.pendulumsToPull =
                          IF v < inst.totalPendulums - 1 THEN v
                          ELSE inst.totalPendulums - 1])

PIBDts == {17}
PIBDimensionValues == {1, 2}
PIBBoxLengths == {5000}
PIBNxs == {2}

PIBDoUpdate ==
    /\ sim = "ParticleInBox"
    /\ steps < MaxSteps
    /\ \E dt \in PIBDts : Did("update", PIBUpdate(inst, dt))
    /\ steps' = steps + 1

PIBDoReset ==
    /\ sim = "ParticleInBox"
    /\ Did("reset", PIBReset(inst))
    /\ UNCHANGED steps

\* parameters 'dimensions': onChange
PIBSetDimensions ==
    /\ sim = "ParticleInBox"
    /\ \E v \in PIBDimensionValues :
           Did("set:dimensions",
               PIBCalculateWaveFunction(PIBCalculateEnergies(
                   [inst EXCEPT !.dimensions = v])))
    /\ UNCHANGED steps

\* parameters 'boxLength': onChange
PIBSetBoxLength ==
    /\ sim = "ParticleInBox"
    /\ \E v \in PIBBoxLengths :
           Did("set:boxLength",
               PIBCalculateWaveFunction(PIBCalculateEnergies(
                   [inst EXCEPT !.boxLength = v])))
    /\ UNCHANGED steps

\* parameters 'nx': onChange
PIBSetNx ==
    /\ sim = "ParticleInBox"
    /\ \E v \in PIBNxs :
           LET t == [inst EXCEPT !.nx = v]
           IN  Did("set:nx",
                   IF t.isSuperposition THEN t
                   ELSE PIBCalculateWaveFunction(PIBCalculateEnergies(t)))
    /\ UNCHANGED steps

\* parameters 'isSuperposition': onChange
PIBSetIsSuperposition ==
    /\ sim = "ParticleInBox"
    /\ \E v \in BOOLEAN :
           LET t == [inst EXCEPT !.isSuperposition = v]
           IN  Did("set:isSuperposition",
                   IF v THEN PIBInitializeSuperposition(t)
                   ELSE PIBCalculateWaveFunction(PIBCalculateEnergies(t)))
    /\ UNCHANGED steps

\* frame time handed to update(), in ms
WFDts == {2}
WFPacketMomenta == {10000}
WFBoundaryTypes == {"infinite", "periodic"}

WFDoUpdate ==
    /\ sim = "WaveFunction"
    /\ steps < MaxSteps
    /\ \E dt \in WFDts :
         \E renormalizes \in [1..WFNumSteps(dt) -> BOOLEAN] :
             Did("update", WFUpdate(inst, dt, renormalizes))
    /\ steps' = steps + 1

WFDoReset ==
    /\ sim = "WaveFunction"
    /\ Did("reset", WFReset(inst))
    /\ UNCHANGED steps

WFDoPause ==
    /\ sim = "WaveFunction"
    /\ Did("pause", [inst EXCEPT !.isPaused = ~@])
    /\ UNCHANGED steps

\* parameters 'packetMomentum': onChange
WFSetPacketMomentum ==
    /\ sim = "WaveFunction"
    /\ \E v \in WFPacketMomenta :
           Did("set:packetMomentum", WFReset([inst EXCEPT !.packetMomentum = v]))
    /\ UNCHANGED steps

\* parameters 'boundaryType': onChange
WFSetBoundaryType ==
    /\ sim = "WaveFunction"
    /\ \E v \in WFBoundaryTypes :
           Did("set:boundaryType", WFReset([inst EXCEPT !.boundaryType = v]))
    /\ UNCHANGED steps

OMDts == {17}
\* the gestures that make a body: where the mouse goes down (newBodyStart)
\* and where it is released (newBodyEnd)
OMGestures == { [start |-> <<0, 0>>, end |-> <<0, 0>>],
                [start |-> <<600000000, 0>>, end |-> <<599990000, 0>>] }
\* slider value inside the declared range, in seconds
OMTimeSteps == {60}
\* user-made bodies over a run: one for each gesture
MaxAdded == Cardinality(OMGestures)

OMDid(op, s) == Did(op, s) /\ UNCHANGED steps

OMDoUpdate ==
    /\ sim = "OrbitalMotion"
    /\ steps < MaxSteps
    /\ \E dt \in OMDts : Did("update", OMUpdate(inst, dt))
    /\ steps' = steps + 1

OMDoReset ==
    /\ sim = "OrbitalMotion"
    /\ OMDid("reset", OMReset(inst))

OMDoPause ==
    /\ sim = "OrbitalMotion"
    /\ OMDid("pause", [inst EXCEPT !.isPaused = ~@])

\* parameters 'timeStep': onChange
OMSetTimeStep ==
    /\ sim = "OrbitalMotion"
    /\ \E v \in OMTimeSteps : OMDid("set:timeStep", [inst EXCEPT !.timeStep = v])

\* parameters 'clearBodies': onClick
OMClearBodies ==
    /\ sim = "OrbitalMotion"
    /\ OMDid("clearBodies", OMResetDataArrays(OMEmptyBodies(inst)))

\* parameters 'preset': onChange with 'solarSystem'
OMSetPreset ==
    /\ sim = "OrbitalMotion"
    /\ OMDid("set:preset", OMCreateSolarSystem(inst))

\* parameters 'addBody': onClick
OMStartAddBody ==
    /\ sim = "OrbitalMotion"
    /\ inst.added < MaxAdded
    /\ ~inst.isCreatingBody
    /\ OMDid("addBody", [inst EXCEPT !.isCreatingBody = TRUE])

\* mouseup that ends the drag from newBodyStart to newBodyEnd while a body is
\* being made
OMMouseUpAddBody ==
    /\ sim = "OrbitalMotion"
    /\ inst.isCreatingBody
    /\ \E g \in OMGestures :
           OMDid("mouseup",
                 [OMAddBody(inst, OMBody(g.start[1], g.start[2],
                                         (g.end[1] - g.start[1]) * 1000,
                                         (g.end[2] - g.start[2]) * 1000,
                                         OMNewBodyMass, OMNewBodyRadius))
                     EXCEPT !.isCreatingBody = FALSE,
                            !.added = @ + 1,
                            !.draggingBody = 0])

Next ==
    \/ OMDoUpdate
    \/ OMDoReset
    \/ OMDoPause
    \/ OMSetTimeStep
    \/ OMClearBodies
    \/ OMSetPreset
    \/ OMStartAddBody
    \/ OMMouseUpAddBody
    \/ WFDoUpdate
    \/ WFDoReset
    \/ WFDoPause
    \/ WFSetPacketMomentum
    \/ WFSetBoundaryType
    \/ PIBDoUpdate
    \/ PIBDoReset
    \/ PIBSetDimensions
    \/ PIBSetBoxLength
    \/ PIBSetNx
    \/ PIBSetIsSuperposition
    \/ NCDoUpdate
    \/ NCDoReset
    \/ NCSetGravity
    \/ NCSetRestitution
    \/ NCSetTotalPendulums
    \/ NCSetPendulumsToPull
    \/ HODoUpdate
    \/ HODoReset
    \/ HOSetDamping
    \/ HOSetSpringConstant
    \/ HOSetInitialPosition
    \/ HOMouseDown
    \/ HOMouseUp
    \/ DPDoUpdate
    \/ DPDoReset
    \/ DPDoPause
    \/ DPSetGravity
    \/ DPSetAngle1
    \/ DPSetShowComparison
    \/ DPDoClearTrail
    \/ LorenzDoUpdate
    \/ LorenzDoReset
    \/ LorenzDoPause
    \/ LorenzSetSigma
    \/ LorenzSetInitialX
    \/ LorenzSetShowComparison
    \/ LorenzDoClearTrajectory

Spec == Init /\ [][Next]_vars

(* -------------------- the controller's own behaviours ------------------- *)
MaxLoads == 3

\* the entries of the simulation list a click can load
LoadableIds == {"newtonsCradle", "doublePendulum", "core-sim2"}

AppInit ==
    /\ sim = "none"
    /\ inst = [cls |-> "none"]
    /\ lastOp = "new"
    /\ threw = FALSE
    /\ steps = 0
    /\ app = AppNew

\* a click on the simulation list (or on a category tab): loadSimulation(id)
AppLoadSimulation ==
    /\ app.loads < MaxLoads
    /\ \E id \in LoadableIds : app' = LoadSimulation(app, id)
    /\ lastOp' = "loadSimulation"
    /\ UNCHANGED <<sim, inst, threw, steps>>

\* the 500 ms timeout of the oldest outstanding loadSimulation fires
AppInitialise ==
    /\ app.timers # <<>>
    /\ lastOp' = "initialise"
    /\ threw' = FALSE
    /\ LET simId == Head(app.timers)
           rest == [app EXCEPT !.timers = Tail(@)]
           c == InstanceClass(simId)
       IN  IF simulationCatalog[simId] /\ c # "none"
           THEN /\ sim' = c
                /\ inst' = InstanceUpdate(c, New(c))
                /\ steps' = 0
                /\ app' = StartAnimationLoop(rest)
           ELSE /\ app' = rest
                /\ UNCHANGED <<sim, inst, steps>>

\* the browser runs a requested frame: animate()
AppFrame ==
    /\ steps < MaxSteps
    /\ \E h \in app.frames :
           app' = RequestFrame([app EXCEPT !.frames = @ \ {h}])
    /\ inst' = InstanceUpdate(sim, inst)
    /\ steps' = steps + 1
    /\ lastOp' = "frame"
    /\ threw' = FALSE
    /\ UNCHANGED sim

\* reset button: simulationInstance.reset()
AppResetButton ==
    /\ sim # "none"
    /\ inst' = (IF sim = "NewtonsCradle" THEN NCReset(inst) ELSE DPReset(inst))
    /\ threw' = (sim = "NewtonsCradle" /\ NCResetThrows(inst))
    /\ lastOp' = "reset"
    /\ UNCHANGED <<sim, steps, app>>

AppNext ==
    \/ AppLoadSimulation
    \/ AppInitialise
    \/ AppFrame
    \/ AppResetButton

AppSpec == AppInit /\ [][AppNext]_vars

(* ------------------------ long runs of one instance --------------------- *)
\* frames animated in one run: enough for every buffer of the three classes
\* below to fill (2000 trajectory points at 4 per frame, 500 trail points)
MaxRun == 505

LongRunClasses == {"HarmonicOscillator", "DoublePendulum", "LorenzAttractor"}

LongInit ==
    /\ sim \in LongRunClasses
    /\ inst = New(sim)
    /\ lastOp = "new"
    /\ threw = FALSE
    /\ steps = 0
    /\ app = AppNew

\* animate(): simulationInstance.update(1/60)
LongUpdate ==
    /\ steps < MaxRun
    /\ Did("update",
           CASE sim = "HarmonicOscillator" -> HOUpdate(inst, 17)
             [] sim = "DoublePendulum" -> DPUpdate(inst, 17)
             [] sim = "LorenzAttractor" -> LorenzUpdate(inst, 167))
    /\ steps' = steps + 1

\* the comparison is chosen before the run starts
LongSetShowComparison ==
    /\ steps = 0
    /\ lastOp = "new"
    /\ \/ LorenzSetShowComparison
       \/ DPSetShowComparison

LongNext ==
    \/ LongUpdate
    \/ LongSetShowComparison

LongRunSpec == LongInit /\ [][LongNext]_vars

(* ---------------- normalizeWaveFunction() on given amplitudes ------------ *)
\* the grid points given an amplitude; the others hold the 0 the constructor
\* filled the arrays with (waveFunction.js:36-37)
SeededPoints == 3

\* amplitudes in 1/WQ
Amplitudes == {0, 5000, -5000}

SeededWaves ==
    { [i \in 1..gridSize |-> IF i <= SeededPoints THEN v[i] ELSE 0] :
          v \in [1..SeededPoints -> Amplitudes] }

NormalizeInit ==
    /\ sim = "WaveFunction"
    /\ \E re \in SeededWaves, im \in SeededWaves :
           inst = [WFNew EXCEPT !.realPart = re, !.imagPart = im]
    /\ lastOp = "new"
    /\ threw = FALSE
    /\ steps = 0
    /\ app = AppNew

NormalizeCall ==
    /\ lastOp = "new"
    /\ Did("normalizeWaveFunction", WFNormalizeWaveFunction(inst))
    /\ UNCHANGED steps

NormalizeNext ==
    \/ NormalizeCall

NormalizeSpec == NormalizeInit /\ [][NormalizeNext]_vars

(* ------------------- handleCollisions() on given bodies ------------------ *)
\* the bodies on the canvas when handleCollisions() is called
CollidingBodies == 3

\* bodies of radius 10 on one line: 15 pixels apart they overlap, 28 apart
\* they do not, and the body merged of the first two reaches the third
CollisionXs == {0, 15, 28}
CollisionMasses == {1, 3}
CollisionVelocities == { <<-6000, 4000>>, <<7000, -3000>> }

CollisionBodies ==
    { OMBody(x, 0, v[1], v[2], m, OMNewBodyRadius) :
          x \in CollisionXs, v \in CollisionVelocities, m \in CollisionMasses }

CollisionInit ==
    /\ sim = "OrbitalMotion"
    /\ \E bs \in [1..CollidingBodies -> CollisionBodies] :
           inst = [OMNew EXCEPT !.bodies = bs]
    /\ lastOp = "new"
    /\ threw = FALSE
    /\ steps = 0
    /\ app = AppNew

CollisionCall ==
    /\ lastOp = "new"
    /\ OMDid("handleCollisions", OMHandleCollisions(inst))

CollisionNext ==
    \/ CollisionCall

CollisionSpec == CollisionInit /\ [][CollisionNext]_vars

(* ------------- the cradle's handleCollisions() on a given pair ----------- *)
\* a two-ball cradle in the sub-step in which the swinging first ball has
\* reached its neighbour: angles in urad (past 10000 the balls overlap),
\* angular velocities in urad/s
PairAngles1 == {10200, 20000, 50000}
PairVelocities1 == {170000, 300000, 600000}
PairAngles2 == {0, 2000, -3000}
PairVelocities2 == {0, 50000, -100000}

PairInit ==
    /\ sim = "NewtonsCradle"
    /\ \E a1 \in PairAngles1, v1 \in PairVelocities1,
          a2 \in PairAngles2, v2 \in PairVelocities2 :
           inst = NCUpdatePendulumPositions(
                      [NCReset([NCNew EXCEPT !.totalPendulums = NCTotalPendulumsMin])
                          EXCEPT !.pendulums[1].angle = a1,
                                 !.pendulums[1].velocity = v1,
                                 !.pendulums[2].angle = a2,
                                 !.pendulums[2].velocity = v2])
    /\ lastOp = "new"
    /\ threw = FALSE
    /\ steps = 0
    /\ app = AppNew

PairCollisionPass ==
    /\ lastOp = "new"
    /\ Did("handleCollisions", NCHandleCollisions(inst))
    /\ UNCHANGED steps

PairNext ==
    \/ PairCollisionPass

PairSpec == PairInit /\ [][PairNext]_vars

(* ------------------- two Lorenz attractors side by side ------------------ *)
\* update(dt) arguments of the twins: one frame of 1/60 s and one of 1/30 s
TwinDts == {167, 333}

\* two instances constructed alike
TwinInit ==
    /\ sim = "LorenzTwins"
    /\ inst = [cls |-> "LorenzTwins", a |-> LorenzNew, b |-> LorenzNew]
    /\ lastOp = "new"
    /\ threw = FALSE
    /\ steps = 0
    /\ app = AppNew

TwinDid(op, a, b) ==
    Did(op, [cls |-> "LorenzTwins", a |-> a, b |-> b])

\* the same update(dt) call on both
TwinUpdate ==
    /\ steps < MaxSteps
    /\ \E dt \in TwinDts :
           TwinDid("update", LorenzUpdate(inst.a, dt), LorenzUpdate(inst.b, dt))
    /\ steps' = steps + 1

\* parameters 'sigma': onChange, the same value on both
TwinSetSigma ==
    /\ \E v \in LorenzSigmas :
           TwinDid("set:sigma", [inst.a EXCEPT !.sigma = v], [inst.b EXCEPT !.sigma = v])
    /\ UNCHANGED steps

\* parameters 'initialX': onChange (reset()), the same value on both
TwinSetInitialX ==
    /\ \E v \in LorenzInitialXs :
           TwinDid("set:initialX",
                   LorenzReset([inst.a EXCEPT !.parameters.initialX = v, !.x = v]),
                   LorenzReset([inst.b EXCEPT !.parameters.initialX = v, !.x = v]))
    /\ UNCHANGED steps

\* parameters 'showComparison': onChange, on the second instance only
TwinSetShowComparison ==
    /\ \E v \in BOOLEAN :
           TwinDid("set:showComparison", inst.a,
                   LET b == [inst.b EXCEPT !.showComparison = v]
                   IN  IF v THEN LorenzResetComparison(b) ELSE b)
    /\ UNCHANGED steps

TwinNext ==
    \/ TwinUpdate
    \/ TwinSetSigma
    \/ TwinSetInitialX
    \/ TwinSetShowComparison

TwinSpec == TwinInit /\ [][TwinNext]_vars

\* ---------------------------------------------------------------------------
\* Uninterrupted evolution of one WaveFunction: update(dt) is the only
\* operation.  steps counts the evolution steps taken since the last call of
\* normalizeWaveFunction() (the constructor ends with one).
\* ---------------------------------------------------------------------------

\* simulated time (in units of dt) up to which update() is called
RenormRun == 8

RECURSIVE SinceNormalize(_, _)
\* the evolution steps since the last renormalisation, after one more update
\* whose steps drew the outcomes renormalizes of Math.random() < 0.01
SinceNormalize(before, renormalizes) ==
    IF renormalizes = <<>> THEN before
    ELSE SinceNormalize(IF Head(renormalizes) THEN 0 ELSE before + 1,
                        Tail(renormalizes))

RenormInit ==
    /\ sim = "WaveFunction"
    /\ inst = WFNew
    /\ lastOp = "new"
    /\ threw = FALSE
    /\ steps = 0
    /\ app = AppNew

RenormUpdate ==
    /\ inst.time < RenormRun
    /\ \E dt \in WFDts :
         \E renormalizes \in [1..WFNumSteps(dt) -> BOOLEAN] :
             /\ Did("update", WFUpdate(inst, dt, renormalizes))
             /\ steps' = SinceNormalize(steps, renormalizes)

RenormNext ==
    \/ RenormUpdate

RenormSpec == RenormInit /\ [][RenormNext]_vars

\* ---------------------------------------------------------------------------
\* evolveWaveFunction() on its own: one evolution step applied to wave
\* functions of given amplitudes, under either boundary condition and with
\* either outcome of the renormalisation trigger.
\* ---------------------------------------------------------------------------

EvolveInit ==
    /\ sim = "WaveFunction"
    /\ \E re \in SeededWaves, im \in SeededWaves, b \in WFBoundaryTypes :
           inst = [WFNew EXCEPT !.realPart = re, !.imagPart = im,
                                !.boundaryType = b]
    /\ lastOp = "new"
    /\ threw = FALSE
    /\ steps = 0
    /\ app = AppNew

EvolveCall ==
    /\ lastOp = "new"
    /\ \E renormalize \in BOOLEAN :
           Did("evolveWaveFunction", WFEvolveWaveFunction(inst, renormalize))
    /\ UNCHANGED steps

EvolveNext ==
    \/ EvolveCall

EvolveSpec == EvolveInit /\ [][EvolveNext]_vars

\* ---------------------------------------------------------------------------
\* The integration loop of NewtonsCradle.update() on its own: one sub-step of
\* every pendulum of a two-ball cradle, for the frame interval of the
\* application and for an interval of one second.
\* ---------------------------------------------------------------------------

\* dt of update(dt), in 1/NQ s
IntegrateDts == {16667, 1000000}

\* the first inner loop of one sub-step of update()
NCIntegrateAll(s, subDt) ==
    [s EXCEPT !.pendulums =
        Tabulate([i \in 1..Len(s.pendulums) |-> NCIntegrate(s, s.pendulums[i], subDt)],
                 Len(s.pendulums))]

IntegrateCall ==
    /\ lastOp = "new"
    /\ \E dt \in IntegrateDts :
           Did("integrate", NCIntegrateAll(inst, dt \div subSteps))
    /\ UNCHANGED steps

IntegrateNext ==
    \/ IntegrateCall

IntegrateSpec == PairInit /\ [][IntegrateNext]_vars

\* ---------------------------------------------------------------------------
\* calculateEnergy() on its own: the published values of a two-ball cradle
\* whose balls swing in either direction.
\* ---------------------------------------------------------------------------

\* angular velocities in 1/NQ rad/s, of a ball swinging back, at rest and
\* swinging forward
EnergyVelocities == {-100000, 0, 170000}

EnergyInit ==
    /\ sim = "NewtonsCradle"
    /\ \E a1 \in PairAngles2, v1 \in EnergyVelocities,
          a2 \in PairAngles2, v2 \in EnergyVelocities :
           inst = NCUpdatePendulumPositions(
                      [NCReset([NCNew EXCEPT !.totalPendulums = NCTotalPendulumsMin])
                          EXCEPT !.pendulums[1].angle = a1,
                                 !.pendulums[1].velocity = v1,
                                 !.pendulums[2].angle = a2,
                                 !.pendulums[2].velocity = v2])
    /\ lastOp = "new"
    /\ threw = FALSE
    /\ steps = 0
    /\ app = AppNew

EnergyCall ==
    /\ lastOp = "new"
    /\ Did("calculateEnergy", NCCalculateEnergy(inst))
    /\ UNCHANGED steps

EnergyNext ==
    \/ EnergyCall

EnergySpec == EnergyInit /\ [][EnergyNext]_vars

\* ---------------------------------------------------------------------------
\* A double pendulum released from chosen angles: the sliders are set before
\* the run starts, then the animation loop calls update(1/60).
\* ---------------------------------------------------------------------------

\* frames of the run
SwingRun == 40

\* slider values in 1/DQ, inside the declared ranges [-pi, pi] and [1, 20]
SwingAngle1s == {500}
SwingAngle2s == {-3100, 1000}
SwingGravities == {20000}

SwingInit ==
    /\ sim = "DoublePendulum"
    /\ inst = DPNew
    /\ lastOp = "new"
    /\ threw = FALSE
    /\ steps = 0
    /\ app = AppNew

\* parameters 'angle1', 'angle2', 'gravity': the slider handler, then onChange
SwingSetParameter ==
    /\ steps = 0
    /\ \/ \E v \in SwingAngle1s :
             Did("set:angle1",
                 DPReset([inst EXCEPT !.parameters.angle1 = v, !.angle1 = v]))
       \/ \E v \in SwingAngle2s :
             Did("set:angle2",
                 DPReset([inst EXCEPT !.parameters.angle2 = v, !.angle2 = v]))
       \/ \E v \in SwingGravities :
             Did("set:gravity", [inst EXCEPT !.gravity = v])
    /\ UNCHANGED steps

\* animate(): simulationInstance.update(1/60)
SwingUpdate ==
    /\ steps < SwingRun
    /\ Did("update", DPUpdate(inst, 17))
    /\ steps' = steps + 1

SwingNext ==
    \/ SwingSetParameter
    \/ SwingUpdate

SwingSpec == SwingInit /\ [][SwingNext]_vars

\* ---------------------------------------------------------------------------
\* OrbitalMotion with the mouse on the canvas: bodies are picked up and let
\* go while the list is updated, cleared, reloaded and added to.
\* ---------------------------------------------------------------------------

\* world positions of the mouse: on the Sun, on Mercury's start, on empty space
OMClicks == {<<0, 0>>, <<58, 0>>, <<400, 400>>}

RECURSIVE OMBodyAt(_, _, _, _)
\* the loop of the mousedown handler: the first body from index i on with
\* distance < body.radius * 1.5 to (x, y); 0 if there is none
OMBodyAt(bodies, x, y, i) ==
    LET hit(d) == d # NaN /\ 2 * d < 3 * bodies[i].radius
    IN  IF i > Len(bodies) THEN 0
        ELSE IF hit(OMDistance(OMSub(x, bodies[i].x), OMSub(y, bodies[i].y))) THEN i
        ELSE OMBodyAt(bodies, x, y, i + 1)

\* mousedown while no body is being made
OMMouseDown ==
    /\ sim = "OrbitalMotion"
    /\ ~inst.isCreatingBody
    /\ \E at \in OMClicks :
         LET picked(i) ==
                 IF i = 0 THEN inst
                 ELSE [inst EXCEPT !.draggingBody = i, !.selectedBody = i]
         IN  OMDid("mousedown", picked(OMBodyAt(inst.bodies, at[1], at[2], 1)))

\* mouseup while no body is being made
OMMouseUp ==
    /\ sim = "OrbitalMotion"
    /\ ~inst.isCreatingBody
    /\ OMDid("mouseup", [inst EXCEPT !.draggingBody = 0])

PointerInit ==
    /\ sim = "OrbitalMotion"
    /\ inst = OMNew
    /\ lastOp = "new"
    /\ threw = FALSE
    /\ steps = 0
    /\ app = AppNew

PointerNext ==
    \/ OMMouseDown
    \/ OMMouseUp
    \/ OMDoUpdate
    \/ OMClearBodies
    \/ OMSetPreset
    \/ OMStartAddBody
    \/ OMMouseUpAddBody

PointerSpec == PointerInit /\ [][PointerNext]_vars

\* ---------------------------------------------------------------------------
\* HyperionApp (chaos/doublependulum.js): hash routes rendered 300 ms after
\* navigation, and the play/pause and reset controls of the rendered
\* simulation.  app holds the application object; `displayed` is the
\* simulation whose controls are in the page ("none" for the dashboard) and
\* isPlaying the variable of those controls; `frames` is the browser's list
\* of requested animation frames with the simulation each animate() closure
\* was started for, `timers` its list of 300 ms timeouts in firing order.
\* ---------------------------------------------------------------------------

MaxNavigations == 3
MaxFrames == 2
\* handles requestAnimationFrame gives out over a run
MaxHandles == 4

\* '/' and two of the simulation routes setupRouter() adds
HypRoutes == {"/", "/core-mechanics/newtons-cradle", "/chaos-theory/double-pendulum"}

\* the simulation renderSimulation() shows for a route
HypSimulationOf(route) ==
    CASE route = "/core-mechanics/newtons-cradle" -> "newtons-cradle"
      [] route = "/chaos-theory/double-pendulum" -> "double-pendulum"
      [] OTHER -> "none"

\* constructor
HypNew ==
    [currentRoute |-> "", animationFrameId |-> 0,
     displayed |-> "none", isPlaying |-> FALSE,
     frames |-> {}, handles |-> 0, timers |-> <<>>, navigations |-> 0]

\* startSimulation(simulationId): cancel the frame of animationFrameId, run
\* animate() once, which requests the next frame
HypStartSimulation(a, simulationId) ==
    LET cancelled == IF a.animationFrameId # 0
                     THEN {f \in a.frames : f.id # a.animationFrameId}
                     ELSE a.frames
    IN  [a EXCEPT !.handles = @ + 1,
                  !.frames = cancelled \cup {[id |-> a.handles + 1,
                                              simulation |-> simulationId]},
                  !.animationFrameId = a.handles + 1]

\* pauseSimulation(simulationId)
HypPauseSimulation(a) ==
    IF a.animationFrameId # 0
    THEN [a EXCEPT !.frames = {f \in @ : f.id # a.animationFrameId},
                   !.animationFrameId = 0]
    ELSE a

HypInit ==
    /\ sim = "HyperionApp"
    /\ inst = [cls |-> "HyperionApp"]
    /\ lastOp = "new"
    /\ threw = FALSE
    /\ steps = 0
    /\ app = HypNew

\* navigateToRoute(route), the synchronous part
HypNavigate ==
    /\ app.navigations < MaxNavigations
    /\ \E route \in HypRoutes :
         /\ app.currentRoute # route
         /\ app' = [app EXCEPT !.currentRoute = route,
                               !.timers = Append(@, route),
                               !.navigations = @ + 1]
    /\ lastOp' = "navigateToRoute"
    /\ UNCHANGED <<sim, inst, threw, steps>>

\* the 300 ms timeout of the oldest outstanding navigation fires:
\* renderDashboard(), or renderSimulation() with setupSimulationControls()
HypRender ==
    /\ app.timers # <<>>
    /\ app' = [app EXCEPT !.timers = Tail(@),
                          !.displayed = HypSimulationOf(Head(app.timers)),
                          !.isPlaying = FALSE]
    /\ lastOp' = "render"
    /\ UNCHANGED <<sim, inst, threw, steps>>

\* click on the play/pause button of the rendered simulation
HypPlayPause ==
    /\ app.displayed # "none"
    /\ app.isPlaying \/ app.handles < MaxHandles
    /\ app' = IF ~app.isPlaying
              THEN [HypStartSimulation(app, app.displayed) EXCEPT !.isPlaying = TRUE]
              ELSE [HypPauseSimulation(app) EXCEPT !.isPlaying = FALSE]
    /\ lastOp' = "playPause"
    /\ UNCHANGED <<sim, inst, threw, steps>>

\* click on the reset button of the rendered simulation: resetSimulation()
HypResetButton ==
    /\ app.displayed # "none"
    /\ app' = [HypPauseSimulation(app) EXCEPT !.isPlaying = FALSE]
    /\ lastOp' = "reset"
    /\ UNCHANGED <<sim, inst, threw, steps>>

\* the browser runs a requested frame: animate() of startSimulation()
HypFrame ==
    /\ steps < MaxFrames
    /\ app.handles < MaxHandles
    /\ \E f \in app.frames :
           app' = [app EXCEPT !.handles = @ + 1,
                              !.frames = (@ \ {f}) \cup {[id |-> app.handles + 1,
                                                          simulation |-> f.simulation]},
                              !.animationFrameId = app.handles + 1]
    /\ steps' = steps + 1
    /\ lastOp' = "frame"
    /\ UNCHANGED <<sim, inst, threw>>

HypNext ==
    \/ HypNavigate
    \/ HypRender
    \/ HypPlayPause
    \/ HypResetButton
    \/ HypFrame

HyperionSpec == HypInit /\ [][HypNext]_vars

(* =============================== claims ================================ *)
\* main.js, reset button: simulationInstance.reset()
Reset(s) ==
    CASE s.cls = "LorenzAttractor" -> LorenzReset(s)
      [] s.cls = "DoublePendulum" -> DPReset(s)
      [] s.cls = "HarmonicOscillator" -> HOReset(s)
      [] s.cls = "NewtonsCradle" -> NCReset(s)
      [] s.cls = "ParticleInBox" -> PIBReset(s)
      [] s.cls = "WaveFunction" -> WFReset(s)
      [] s.cls = "OrbitalMotion" -> OMReset(s)

\* the classes with a pause flag
Pausable(s) == "isPaused" \in DOMAIN s

\* the operations of class c whose handler runs reset(): the reset button and
\* the change callbacks that end in this.reset()
RunsReset(c, op) ==
    \/ op = "reset"
    \/ c = "LorenzAttractor" /\ op = "set:initialX"
    \/ c = "DoublePendulum" /\ op = "set:angle1"
    \/ c = "HarmonicOscillator" /\ op = "set:initialPosition"
    \/ c = "NewtonsCradle"
       /\ op \in {"set:gravity", "set:restitution", "set:totalPendulums",
                  "set:pendulumsToPull"}
    \/ c = "WaveFunction" /\ op \in {"set:packetMomentum", "set:boundaryType"}

\* the integrated variables of an instance
StateVector(s) ==
    CASE s.cls = "LorenzAttractor" -> <<s.x, s.y, s.z>>
      [] s.cls = "DoublePendulum" ->
            <<s.angle1, s.angularVelocity1, s.angle2, s.angularVelocity2>>
      [] s.cls = "HarmonicOscillator" -> <<s.position, s.velocity>>
      [] s.cls = "NewtonsCradle" ->
            [i \in 1..Len(s.pendulums) |->
                <<s.pendulums[i].angle, s.pendulums[i].velocity>>]
      [] s.cls = "ParticleInBox" -> <<s.nx, s.ny, s.nz, s.superpositionStates>>
      [] s.cls = "WaveFunction" -> <<s.realPart, s.imagPart>>
      [] s.cls = "OrbitalMotion" ->
            [i \in 1..Len(s.bodies) |->
                <<s.bodies[i].x, s.bodies[i].y, s.bodies[i].vx, s.bodies[i].vy>>]

\* the number of elements of the integrated state
ElementCount(s) ==
    CASE s.cls = "NewtonsCradle" -> Len(s.pendulums)
      [] s.cls = "WaveFunction" -> Len(s.realPart)
      [] s.cls = "OrbitalMotion" -> Len(s.bodies)
      [] OTHER -> Len(StateVector(s))

\* the simulation time (the cradle keeps none)
Time(s) == IF "time" \in DOMAIN s THEN s.time ELSE 0

\* the history buffers of an instance, one sequence per buffer
Histories(s) ==
    CASE s.cls = "LorenzAttractor" ->
            <<s.trajectory, s.comparisonTrajectory, s.timeSeriesData.time,
              s.timeSeriesData.x, s.timeSeriesData.y, s.timeSeriesData.z,
              s.lyapunovHistory>>
      [] s.cls = "DoublePendulum" ->
            <<s.trailPoints, s.phaseSpaceData.angle1, s.phaseSpaceData.velocity1,
              s.phaseSpaceData.angle2, s.phaseSpaceData.velocity2,
              s.energyData.time, s.energyData.kinetic, s.energyData.potential,
              s.energyData.total, s.lyapunovHistory>>
      [] s.cls = "HarmonicOscillator" ->
            <<s.timeData, s.positionData, s.velocityData, s.kineticEnergyData,
              s.potentialEnergyData, s.totalEnergyData, s.phaseData>>
      [] s.cls = "NewtonsCradle" -> <<>>
      [] s.cls = "ParticleInBox" -> <<>>
      [] s.cls = "WaveFunction" ->
            <<s.timePoints, s.positionExpectation, s.momentumExpectation>>
      [] s.cls = "OrbitalMotion" ->
            <<s.energyData.time, s.energyData.kinetic, s.energyData.potential,
              s.energyData.total, s.orbitData.time, s.orbitData.eccentricity,
              s.orbitData.semiMajorAxis>>
            \o [i \in 1..Len(s.bodies) |-> s.bodies[i].trajectory]

\* C1: while isPaused is true, update(dt) changes no field of the instance
\* (state vector, time, shadow trajectory, published values, histories).
C1_PausedUpdateIsNoOp ==
    [][(lastOp' = "update" /\ Pausable(inst) /\ inst.isPaused) => inst' = inst]_vars

\* an update() call made on a paused instance that had run before
C1_Witness ==
    /\ lastOp = "update"
    /\ Pausable(inst)
    /\ inst.isPaused
    /\ steps = MaxSteps
    /\ Time(inst) > 0

\* C2: with every value handed to the cradle's change callbacks inside the
\* declared range, no update(), reset() or callback throws.
C2_CradleNeverThrows == (sim = "NewtonsCradle") => ~threw

\* C3: after the damping callback the damping used by calculateAcceleration
\* lies inside the declared [min, max], and the callback did not throw.
C3_DampingClamped ==
    (sim = "HarmonicOscillator" /\ lastOp = "set:damping")
        => (inst.damping \in HODampingMin..HODampingMax /\ ~threw)

\* C4: in every reachable state a second reset() changes nothing that the
\* first reset() left.
C4_ResetIdempotent == Reset(Reset(inst)) = Reset(inst)

\* the state right after a reset() of an instance that had been updated: a
\* further reset() leaves it as it is
C4_Witness ==
    /\ lastOp = "reset"
    /\ steps = MaxSteps
    /\ ~threw
    /\ Reset(inst) = inst

\* C5: right after reset() every history buffer is empty.
C5_HistoryEmptyAfterReset ==
    (lastOp = "reset")
        => \A i \in DOMAIN Histories(inst) : Len(Histories(inst)[i]) = 0

\* C6: after reset() the pause flag has the value it has in a fresh instance,
\* whatever it was before the reset.
C6_ResetLeavesReady ==
    (lastOp = "reset" /\ Pausable(inst)) => inst.isPaused = New(sim).isPaused

\* C7: after the callback of a structural parameter (totalPendulums,
\* dimensions, boxLength) the instance is in the state reset() produces with
\* the new value, so a reset() would change nothing.
C7_StructuralChangeResets ==
    (lastOp \in {"set:totalPendulums", "set:dimensions", "set:boxLength"})
        => inst = Reset(inst)

NonStructuralOps == {"set:gravity", "set:restitution", "set:damping",
                     "set:springConstant", "set:sigma"}

\* C9: the change callback of a non-structural physics parameter leaves the
\* state vector, the simulation time and the recorded history as they were.
C9_ParameterChangeKeepsState ==
    [][lastOp' \in NonStructuralOps =>
          /\ StateVector(inst') = StateVector(inst)
          /\ Time(inst') = Time(inst)
          /\ Histories(inst') = Histories(inst)]_vars

\* what C10 compares of a body: mass, initial position and velocity, and the
\* position and velocity reset() put it at
OMBodyData(body) ==
    [mass |-> body.mass, initial |-> body.initial,
     x |-> body.x, y |-> body.y, vx |-> body.vx, vy |-> body.vy]

\* C10: after reset() the body list is the list the preset was created with.
C10_ResetRestoresPreset ==
    (sim = "OrbitalMotion" /\ lastOp = "reset")
        => [i \in 1..Len(inst.bodies) |-> OMBodyData(inst.bodies[i])]
             = [i \in 1..Len(OMSolarSystemBodies) |->
                    OMBodyData(OMSolarSystemBodies[i])]


\* C11: at most one animation-frame continuation is pending at any moment, for
\* every interleaving of loadSimulation calls, delayed initialisations and frame
\* callbacks, and a loadSimulation call leaves no frame pending.
C11_OneFramePending ==
    /\ [](Cardinality(app.frames) <= 1)
    /\ [][lastOp' = "loadSimulation" => app'.frames = {}]_vars

\* two loads were outstanding together, both initialisations have run and the
\* second loop is under way
C11_Witness ==
    /\ app.loads >= 2
    /\ app.timers = <<>>
    /\ app.handles >= 3
    /\ app.frames # {}
    /\ lastOp = "frame"


\* the configured maximum of each buffer of Histories(s), in the same order
HistoryLimits(s) ==
    CASE s.cls = "LorenzAttractor" ->
            <<maxTrajectoryPoints, maxTrajectoryPoints, maxTimeSeriesPoints,
              maxTimeSeriesPoints, maxTimeSeriesPoints, maxTimeSeriesPoints,
              maxLyapunovPoints>>
      [] s.cls = "DoublePendulum" ->
            <<maxTrailPoints, maxPhasePoints, maxPhasePoints, maxPhasePoints,
              maxPhasePoints, maxEnergyPoints, maxEnergyPoints, maxEnergyPoints,
              maxEnergyPoints, DPMaxLyapunovPoints>>
      [] s.cls = "HarmonicOscillator" ->
            [i \in 1..7 |-> maxDataPoints]

\* how many samples one update(1/60) of a running instance appends to each
\* buffer of Histories(s): one per integration step or per frame, and where the
\* code appends on a condition, none or one per step
HistoryAppends(s) ==
    CASE s.cls = "LorenzAttractor" ->
            LET n == CeilDiv(MulQ(167, s.simulationSpeed, LQ), s.timeStep)
            IN  <<{n}, IF s.showComparison THEN {n} ELSE {0},
                  {0, 1}, {0, 1}, {0, 1}, {0, 1}, 0..n>>
      [] s.cls = "DoublePendulum" ->
            <<{1}, {1}, {1}, {1}, {1}, {1}, {1}, {1}, {1}, {0, 1}>>
      [] s.cls = "HarmonicOscillator" ->
            [i \in 1..7 |-> {1}]

\* `after` is `before` with k samples appended and, where that overflowed max,
\* exactly the oldest samples dropped: what is left of `before` is its tail, in
\* order, followed by the new samples
FifoAppend(before, after, max, k) ==
    /\ k <= Len(after)
    /\ Len(after) = (IF Len(before) + k > max THEN max ELSE Len(before) + k)
    /\ LET kept == Len(after) - k
       IN  SubSeq(after, 1, kept) =
               SubSeq(before, Len(before) - kept + 1, Len(before))

\* C12: after every update(dt) each history buffer holds at most its configured
\* maximum, and an overflowing append removes exactly the oldest samples and
\* keeps the order of the others.
C12_BoundedFifo ==
    [][lastOp' = "update" =>
          \A i \in 1..Len(Histories(inst')) :
              /\ Len(Histories(inst')[i]) <= HistoryLimits(inst')[i]
              /\ \E k \in HistoryAppends(inst)[i] :
                     FifoAppend(Histories(inst)[i], Histories(inst')[i],
                                HistoryLimits(inst')[i], k)]_vars

\* an update that appended to buffers that were already full
C12_Witness ==
    /\ lastOp = "update"
    /\ \/ sim = "HarmonicOscillator" /\ steps > maxDataPoints
          /\ Len(inst.timeData) = maxDataPoints
       \/ sim = "DoublePendulum" /\ steps > maxTrailPoints
          /\ Len(inst.trailPoints) = maxTrailPoints
       \/ sim = "LorenzAttractor" /\ steps * 4 > maxTrajectoryPoints
          /\ Len(inst.trajectory) = maxTrajectoryPoints


\* the sample times of each time-stamped buffer of an instance
SampleTimes(s) ==
    CASE s.cls = "LorenzAttractor" ->
            << [i \in 1..Len(s.trajectory) |-> s.trajectory[i].time],
               [i \in 1..Len(s.comparisonTrajectory) |->
                   s.comparisonTrajectory[i].time],
               s.timeSeriesData.time,
               [i \in 1..Len(s.lyapunovHistory) |-> s.lyapunovHistory[i].time] >>
      [] s.cls = "DoublePendulum" ->
            << s.energyData.time,
               [i \in 1..Len(s.lyapunovHistory) |-> s.lyapunovHistory[i].time] >>
      [] s.cls = "HarmonicOscillator" -> << s.timeData >>
      [] s.cls = "WaveFunction" -> << s.timePoints >>
      [] s.cls = "OrbitalMotion" -> << s.energyData.time, s.orbitData.time >>
      [] OTHER -> << >>

StrictlyIncreasing(ts) == \A i \in 1..Len(ts) - 1 : ts[i] < ts[i + 1]

\* C13: in every time-stamped history buffer each sample's time is strictly
\* greater than the time of the sample stored before it.
C13_SampleTimesIncrease ==
    \A i \in 1..Len(SampleTimes(inst)) : StrictlyIncreasing(SampleTimes(inst)[i])


\* the published values are what their defining functions give for the current
\* state vector, parameters and time
PublishedCurrent(s) ==
    CASE s.cls = "LorenzAttractor" ->
            /\ s.values.x = s.x
            /\ s.values.y = s.y
            /\ s.values.z = s.z
            /\ s.values.time = s.time
            /\ s.values.lyapunovExponent = s.lyapunovExponent
      [] s.cls = "DoublePendulum" -> DPCalculateEnergy(s).values = s.values
      [] s.cls = "HarmonicOscillator" -> HOUpdateValues(s).values = s.values
      [] OTHER -> TRUE

\* C14: in every state the frame callback observes (update(1/60) has just
\* returned) each published value equals its defining function of the current
\* state, parameters and time, also after a reset or a parameter change made
\* while the simulation is paused.
C14_PublishedValuesCurrent == (lastOp = "update") => PublishedCurrent(inst)


\* C15: one update step leaves every component of the state vector finite, also
\* from a state in which two gravitating bodies occupy the same position.
C15_UpdateKeepsStateFinite ==
    (lastOp = "update" /\ sim \in {"OrbitalMotion", "DoublePendulum"}) =>
        \A i \in 1..Len(StateVector(inst)) :
            IF sim = "OrbitalMotion"
            THEN \A c \in 1..4 : StateVector(inst)[i][c] # NaN
            ELSE StateVector(inst)[i] # NaN


\* C16: renormalization does not divide by a zero total probability: after
\* normalizeWaveFunction() no component of the wave function is undefined (it
\* kept, or was re-seeded to, a normalized state).
C16_NormalizationGuarded ==
    (sim = "WaveFunction" /\ lastOp = "normalizeWaveFunction") =>
        \A i \in 1..Len(inst.realPart) :
            inst.realPart[i] # NaN /\ inst.imagPart[i] # NaN


RECURSIVE SumOver(_, _)
\* the sum of f[i] over 1..n
SumOver(f, n) == IF n = 0 THEN 0 ELSE f[n] + SumOver(f, n - 1)

TotalMass(bs) == SumOver([i \in 1..Len(bs) |-> bs[i].mass], Len(bs))
MomentumX(bs) == SumOver([i \in 1..Len(bs) |-> bs[i].mass * bs[i].vx], Len(bs))
MomentumY(bs) == SumOver([i \in 1..Len(bs) |-> bs[i].mass * bs[i].vy], Len(bs))

\* the merged bodies that the loops of handleCollisions() push onto the list
Merges(s) ==
    Len(OMCollideFrom([bodies |-> s.bodies, collided |-> {},
                       selected |-> s.selectedBody], 1).bodies) - Len(s.bodies)

\* C17: every handleCollisions() call keeps the total mass and the total linear
\* momentum of the body list (to the one velocity unit that each merge's
\* division rounds by) and takes one body off the list for each merge.
C17_CollisionsConserve ==
    [][lastOp' = "handleCollisions" =>
          /\ TotalMass(inst'.bodies) = TotalMass(inst.bodies)
          /\ Abs(MomentumX(inst'.bodies) - MomentumX(inst.bodies))
                 <= Merges(inst) * TotalMass(inst.bodies)
          /\ Abs(MomentumY(inst'.bodies) - MomentumY(inst.bodies))
                 <= Merges(inst) * TotalMass(inst.bodies)
          /\ Len(inst'.bodies) = Len(inst.bodies) - Merges(inst)]_vars

\* three bodies became one: the body merged of two overlapped the third, and
\* the bodies differed in mass and velocity
C17_Witness ==
    /\ lastOp = "handleCollisions"
    /\ Len(inst.bodies) = 1
    /\ inst.bodies[1].mass = 5
    /\ inst.bodies[1].vx \notin {-6000, 7000}


\* the balls i and i + 1 of a cradle overlap
NCOverlapping(s, i) ==
    LET dx == s.pendulums[i + 1].x - s.pendulums[i].x
        dy == s.pendulums[i + 1].y - s.pendulums[i].y
    IN  ISqrt(dx * dx + dy * dy) < 2 * pendulumRadius * NPX

\* m1 v1 + m2 v2 of the first two balls
PairMomentum(s) ==
    s.pendulums[1].mass * s.pendulums[1].velocity
    + s.pendulums[2].mass * s.pendulums[2].velocity

\* C18: with restitution 1 and equal masses one collision pass over two
\* overlapping balls leaves m1 v1 + m2 v2 unchanged (to the unit by which each
\* of the two velocity corrections is rounded).
C18_PassKeepsPairMomentum ==
    [][(/\ lastOp' = "handleCollisions"
        /\ sim = "NewtonsCradle"
        /\ inst.restitution = NQ
        /\ inst.pendulums[1].mass = inst.pendulums[2].mass
        /\ NCOverlapping(inst, 1))
       => Abs(PairMomentum(inst') - PairMomentum(inst))
              <= inst.pendulums[1].mass + inst.pendulums[2].mass]_vars


\* the phase-space distance between the primary state and its shadow
ShadowDistance(s) ==
    IF s.cls = "DoublePendulum"
    THEN LET d1 == s.angle1 - s.comparisonAngle1
             d2 == s.angle2 - s.comparisonAngle2
             d3 == s.angularVelocity1 - s.comparisonAngularVelocity1
             d4 == s.angularVelocity2 - s.comparisonAngularVelocity2
         IN  ISqrt(d1 * d1 + d2 * d2 + d3 * d3 + d4 * d4)
    ELSE LET dx == s.x - s.comparisonX
             dy == s.y - s.comparisonY
             dz == s.z - s.comparisonZ
         IN  ISqrt(dx * dx + dy * dy + dz * dz)

\* the offset that the exponent formula divides the distance by
ShadowOffset(s) ==
    IF s.cls = "DoublePendulum" THEN DPLyapunovDelta0 ELSE lyapunovDelta0

\* C19: when the shadow state is placed by reset() or by switching the
\* comparison on, its phase-space distance from the primary state is the
\* initial offset lyapunovDelta0 of the exponent formula.
C19_ShadowPlacedAtOffset ==
    (/\ sim \in {"DoublePendulum", "LorenzAttractor"}
     /\ inst.showComparison
     /\ (RunsReset(sim, lastOp) \/ lastOp = "set:showComparison"))
    => ShadowDistance(inst) = ShadowOffset(inst)


\* C20: the elapsed time that the Lyapunov exponent computation divides by
\* (lyapunovTime) is the simulated time integrated since the shadow was last
\* placed: it is zero when reset() or switching the comparison on places the
\* shadow, and an update adds the time it integrated or, where it renormalized,
\* restarts it.
C20_ElapsedTimeSincePlacement ==
    [][(sim \in {"DoublePendulum", "LorenzAttractor"} /\ inst'.showComparison) =>
          /\ (RunsReset(sim, lastOp')
              \/ (lastOp' = "set:showComparison" /\ ~inst.showComparison))
             => inst'.lyapunovTime = 0
          /\ (lastOp' = "update" /\ inst.showComparison)
             => \/ inst'.lyapunovTime = inst.lyapunovTime + (inst'.time - inst.time)
                \/ inst'.lyapunovTime < inst'.time - inst.time]_vars


\* C21: two Lorenz attractors started alike and given the same update(dt)
\* calls hold the same state vector, time and trajectory buffer after every
\* step, whatever else differs between them.
C21_TwinsAgree ==
    (sim = "LorenzTwins") =>
        /\ StateVector(inst.a) = StateVector(inst.b)
        /\ inst.a.time = inst.b.time
        /\ inst.a.trajectory = inst.b.trajectory

\* both have integrated all their frames, one with and one without the
\* comparison trajectory
C21_Witness ==
    /\ sim = "LorenzTwins"
    /\ lastOp = "update"
    /\ steps = MaxSteps
    /\ inst.a.showComparison # inst.b.showComparison
    /\ inst.a.comparisonX # inst.b.comparisonX
    /\ Len(inst.a.trajectory) > 4


\* C22: during uninterrupted evolution every run of N consecutive evolution
\* steps contains a renormalisation, for a fixed N; stated for N = RenormRun,
\* the length of the whole run: fewer than N steps have passed since the
\* last call of normalizeWaveFunction().
C22_RenormalizedWithinBound ==
    (sim = "WaveFunction") => steps < RenormRun


\* the real and the imaginary sample at both ends of the grid are zero
WFEndsZero(s) ==
    /\ s.realPart[1] = 0 /\ s.realPart[gridSize] = 0
    /\ s.imagPart[1] = 0 /\ s.imagPart[gridSize] = 0

\* C23: with boundaryType 'infinite', after every evolution step the real and
\* the imaginary sample at both ends of the grid are exactly zero, also when
\* the step ends with a renormalisation.
C23_InfiniteEndsZero ==
    (sim = "WaveFunction" /\ lastOp = "evolveWaveFunction"
        /\ inst.boundaryType = "infinite")
    => WFEndsZero(inst)


\* the sum over all grid samples of |psi_i|^2, in 1/WQ
WFTotalProbability(s) ==
    WFSum([i \in 1..gridSize |->
             (s.realPart[i] * s.realPart[i]
              + s.imagPart[i] * s.imagPart[i]) \div WQ], gridSize, 0)

\* C24: immediately after construction or reset() of a WaveFunction the sum
\* over all grid samples of |psi_i|^2 multiplied by the grid spacing dx
\* equals 1 (to within a hundredth, the rounding of the samples).
C24_UnitIntegral ==
    (sim = "WaveFunction" /\ lastOp \in {"new", "reset"})
    => Abs(MulQ(WFTotalProbability(inst), WFDx, PQ) - WQ) <= WQ \div 100


\* pendulum q is pendulum p after one explicit Euler step of length subDt:
\* angle and velocity both advanced from the values at the start of the step
NCExplicitEuler(s, p, q, subDt) ==
    /\ q.velocity = p.velocity
                    + MulM(-(MulM(s.gravity, SinM(p.angle)) \div stringLength), subDt)
    /\ Abs(q.angle - (p.angle + MulM(p.velocity, subDt))) <= 1

\* C25: each integration sub-step of NewtonsCradle is an explicit Euler step
\* on the state at the start of the sub-step: the new angle is the old angle
\* plus subDt times the old velocity (to the rounding unit), the new velocity
\* the old one plus subDt times the acceleration at the old angle.
C25_ExplicitEulerSubStep ==
    [][(lastOp' = "integrate" /\ sim = "NewtonsCradle")
       => \E dt \in IntegrateDts :
            \A i \in 1..Len(inst.pendulums) :
                NCExplicitEuler(inst, inst.pendulums[i], inst'.pendulums[i],
                                dt \div subSteps)]_vars


\* the signed linear sum of m v over all balls, v = angular velocity times
\* string length, in 1/NQ
NCSignedMomentum(s) ==
    NCSum([i \in 1..Len(s.pendulums) |->
              s.pendulums[i].mass * (s.pendulums[i].velocity * stringLength)],
          Len(s.pendulums), 0)

\* C26: the momentum value published by NewtonsCradle equals the signed
\* linear sum of m v over all balls, so it is negative when the net motion is
\* in the negative direction.
C26_MomentumSigned ==
    (sim = "NewtonsCradle" /\ lastOp = "calculateEnergy")
    => inst.values.momentum = NCSignedMomentum(inst)


\* C27: whenever the animation loop invokes update(), the instance it updates
\* was created for the currently selected simulation, for every interleaving
\* of loadSimulation calls with their delayed initialisations.
C27_FrameUpdatesCurrentSimulation ==
    (lastOp = "frame" /\ sim # "none")
    => sim = InstanceClass(app.currentSimulation)


\* C28: normalizeAngle returns a value in [-pi, pi], so after every update
\* step both angles of the double pendulum lie in [-pi, pi].
C28_AnglesWithinHalfTurn ==
    (sim = "DoublePendulum" /\ lastOp = "update")
    => /\ -PI <= inst.angle1 /\ inst.angle1 <= PI
       /\ -PI <= inst.angle2 /\ inst.angle2 <= PI


\* a reference held outside the list is null (0) or the index of an element
OMInList(s, ref) == ref \in 0..Len(s.bodies)

\* C29: in every reachable state of OrbitalMotion selectedBody and
\* draggingBody are each null or an element of the current bodies list, also
\* after collision merges, 'Clear All Bodies' and preset loading.
C29_ReferencesInList ==
    (sim = "OrbitalMotion")
    => /\ OMInList(inst, inst.selectedBody)
       /\ OMInList(inst, inst.draggingBody)


\* C30: in HyperionApp an animation-frame continuation is pending only while
\* the play/pause control of the displayed simulation is in its playing
\* state, and it is a continuation of that simulation: none remains after
\* pause, after reset or after another route was rendered.
C30_PendingOnlyWhilePlaying ==
    (sim = "HyperionApp" /\ app.frames # {})
    => /\ app.isPlaying
       /\ \A f \in app.frames : f.simulation = app.displayed

====
